---- MODULE Spec2Model ----
(***************************************************************************)
(* The multi-provider product cache of the unified product service        *)
(* (product.service.js): disk snapshot, in-memory slots, warm-up passes,   *)
(* and listing queries, as a state machine.                                *)
(*                                                                         *)
(* Strings that the code takes apart (product identifiers) are sequences   *)
(* of one-character strings; provider names used as keys are strings.      *)
(* Time is Date.now() in milliseconds.                                     *)
(***************************************************************************)
EXTENDS Integers, Sequences, FiniteSets, TLC

\* ------------------------------------------------------------------ bounds
MaxFetch == 1     \* most records one upstream call returns
MaxEvents == 5    \* timer firings, clock advances, requests and upstream responses in one run

\* --------------------------------------------------------------- constants
CACHE_TTL == 30 * 60 * 1000
TickStep == CACHE_TTL
StartTime == CACHE_TTL

Providers == {"globetopper", "dtone", "ppn", "billers"}
\* the order in which warmUpCache visits the providers
WarmOrder == <<"globetopper", "dtone", "billers", "ppn">>
\* the order in which getAllProducts visits the providers
QueryOrder == <<"globetopper", "dtone", "ppn", "billers">>

\* ------------------------------------------------------------------ strings
DigitChars == <<"1", "2", "3", "4", "5", "6", "7", "8", "9">>
RawId(i) == <<DigitChars[i]>>
Underscore == "_"

Chars(name) ==
  CASE name = "globetopper" -> <<"g", "l", "o", "b", "e", "t", "o", "p", "p", "e", "r">>
    [] name = "dtone" -> <<"d", "t", "o", "n", "e">>
    [] name = "billers" -> <<"b", "i", "l", "l", "e", "r", "s">>
    [] name = "ppn" -> <<"p", "p", "n">>
    [] name = "topup" -> <<"t", "o", "p", "u", "p">>
    [] name = "top-up" -> <<"t", "o", "p", "-", "u", "p">>
    [] name = "top" -> <<"t", "o", "p">>
    [] name = "bill payment" -> <<"b", "i", "l", "l", " ", "p", "a", "y", "m", "e", "n", "t">>
    [] name = "other" -> <<"o", "t", "h", "e", "r">>
    [] name = "gift" -> <<"g", "i", "f", "t">>
    [] name = "data" -> <<"d", "a", "t", "a">>
    [] name = "" -> <<>>

\* String.prototype.indexOf for a single character: 0-based, -1 when absent
IndexOf(s, c) ==
  IF \E i \in 1..Len(s) : s[i] = c
    THEN (CHOOSE i \in 1..Len(s) : s[i] = c /\ \A k \in 1..(i - 1) : s[k] # c) - 1
    ELSE -1

\* String.prototype.includes
Includes(s, sub) ==
  \E i \in 0..(Len(s) - Len(sub)) : SubSeq(s, i + 1, i + Len(sub)) = sub

\* String.prototype.substring(from, to) with 0-based, end-exclusive indices
Substring(s, from, to) == SubSeq(s, from + 1, to)

\* ----------------------------------------------------- provider ID codec
CODE_TO_PROVIDER ==
  (<<"1", "0", "0", "1">> :> "globetopper") @@ (<<"1", "0", "0", "2">> :> "dtone")
    @@ (<<"1", "0", "0", "3">> :> "billers") @@ (<<"1", "0", "0", "4">> :> "ppn")

PROVIDER_TO_CODE ==
  [p \in Providers |-> CHOOSE c \in DOMAIN CODE_TO_PROVIDER : CODE_TO_PROVIDER[c] = p]

OLD_PREFIX_TO_PROVIDER ==
  (Chars("dtone") :> "dtone") @@ (Chars("billers") :> "billers") @@ (Chars("ppn") :> "ppn")

\* The three tables are plain objects, and `table[prefix]` also answers for
\* the property names every object inherits from Object.prototype (those
\* that start with an underscore never reach a lookup: the prefix test
\* requires the first underscore after position 0).  An inherited value is
\* a function object, which is truthy.
ObjectPrototypeKeys ==
  {<<"c", "o", "n", "s", "t", "r", "u", "c", "t", "o", "r">>,
   <<"h", "a", "s", "O", "w", "n", "P", "r", "o", "p", "e", "r", "t", "y">>,
   <<"i", "s", "P", "r", "o", "t", "o", "t", "y", "p", "e", "O", "f">>,
   <<"p", "r", "o", "p", "e", "r", "t", "y", "I", "s", "E", "n", "u", "m", "e", "r", "a", "b", "l", "e">>,
   <<"t", "o", "L", "o", "c", "a", "l", "e", "S", "t", "r", "i", "n", "g">>,
   <<"t", "o", "S", "t", "r", "i", "n", "g">>,
   <<"v", "a", "l", "u", "e", "O", "f">>}
\* what String() makes of such a function object
NativeFunction == "function () { [native code] }"
\* the truthiness of table[key]
Truthy(table, key) == key \in DOMAIN table \/ key \in ObjectPrototypeKeys
\* the value of table[key] when it is truthy
Lookup(table, key) == IF key \in DOMAIN table THEN table[key] ELSE NativeFunction

\* fault variant: no test for an identifier that is already encoded
encodeProductIdUnchecked(rawId) ==
  IF rawId = <<>> THEN rawId
  ELSE
    LET underscoreIdx == IndexOf(rawId, Underscore)
        prefix == Substring(rawId, 0, underscoreIdx)
    IN IF underscoreIdx > 0 /\ prefix \in DOMAIN OLD_PREFIX_TO_PROVIDER
         THEN PROVIDER_TO_CODE[OLD_PREFIX_TO_PROVIDER[prefix]]
                \o <<Underscore>> \o Substring(rawId, underscoreIdx + 1, Len(rawId))
       ELSE PROVIDER_TO_CODE["globetopper"] \o <<Underscore>> \o rawId

encodeProductId(rawId) ==
  IF rawId = <<>> THEN rawId
  ELSE
    LET underscoreIdx == IndexOf(rawId, Underscore)
        prefix == Substring(rawId, 0, underscoreIdx)
    IN IF underscoreIdx > 0 /\ Truthy(CODE_TO_PROVIDER, prefix) THEN rawId
       ELSE IF underscoreIdx > 0 /\ Truthy(OLD_PREFIX_TO_PROVIDER, prefix)
         THEN Lookup(PROVIDER_TO_CODE, Lookup(OLD_PREFIX_TO_PROVIDER, prefix))
                \o <<Underscore>> \o Substring(rawId, underscoreIdx + 1, Len(rawId))
       ELSE PROVIDER_TO_CODE["globetopper"] \o <<Underscore>> \o rawId

\* the decoded triple; `${provider}_${rawId}` spells an inherited function
\* value out as its source text
Decoded(provider, rawId, internalId) ==
  [provider |-> provider, rawId |-> rawId, internalId |-> internalId]

\* fault variant: the raw id is what follows the last underscore
decodeProductIdLastUnderscore(encodedId) ==
  IF encodedId = <<>> THEN Decoded("globetopper", encodedId, encodedId)
  ELSE
    LET underscoreIdx == IndexOf(encodedId, Underscore)
        prefix == Substring(encodedId, 0, underscoreIdx)
        last == CHOOSE i \in 0..Len(encodedId) :
                  /\ (i > 0 => encodedId[i] = Underscore)
                  /\ \A k \in (i + 1)..Len(encodedId) : encodedId[k] # Underscore
        rawId == Substring(encodedId, last, Len(encodedId))
    IN IF underscoreIdx > 0 /\ Truthy(CODE_TO_PROVIDER, prefix)
         THEN Decoded(Lookup(CODE_TO_PROVIDER, prefix), rawId, rawId)
       ELSE Decoded("globetopper", encodedId, encodedId)

decodeProductId(encodedId) ==
  IF encodedId = <<>> THEN Decoded("globetopper", encodedId, encodedId)
  ELSE
    LET underscoreIdx == IndexOf(encodedId, Underscore)
        prefix == Substring(encodedId, 0, underscoreIdx)
        rawId == Substring(encodedId, underscoreIdx + 1, Len(encodedId))
    IN IF underscoreIdx > 0 /\ Truthy(CODE_TO_PROVIDER, prefix)
         THEN LET provider == Lookup(CODE_TO_PROVIDER, prefix)
              IN Decoded(provider, rawId,
                         IF provider = "globetopper" THEN rawId
                         ELSE IF provider = NativeFunction
                           THEN <<NativeFunction, Underscore>> \o rawId
                         ELSE Chars(provider) \o <<Underscore>> \o rawId)
       ELSE IF underscoreIdx > 0 /\ Truthy(OLD_PREFIX_TO_PROVIDER, prefix)
         THEN Decoded(Lookup(OLD_PREFIX_TO_PROVIDER, prefix), rawId, encodedId)
       ELSE Decoded("globetopper", encodedId, encodedId)

\* -------------------------------------------------------------- normalizers
\* A unified product keeps the fields the cache logic reads: the provider
\* tag and the identifier (BillerID).
Product(provider, id) == [provider |-> provider, BillerID |-> id]

\* raw GlobeTopper records: a catalogue item carries topup_product_id, a
\* product carries operator.id; <<>> stands for an absent field
CatItem(id) == [topup_product_id |-> id, operator_id |-> <<>>]
ProdItem(id) == [topup_product_id |-> <<>>, operator_id |-> id]

\* merged and unmatchedProducts of normalizeGlobeTopper, concatenated
GlobeTopperJoin(catalogueItems, productsData) ==
  LET Match(catItem) ==
        {k \in 1..Len(productsData) :
           productsData[k].operator_id = catItem.topup_product_id}
      Find(catItem) ==
        IF Match(catItem) = {} THEN CatItem(<<>>)
        ELSE productsData[CHOOSE k \in Match(catItem) : \A l \in Match(catItem) : k <= l]
      merged == [i \in 1..Len(catalogueItems) |->
                   [topup_product_id |-> catalogueItems[i].topup_product_id,
                    operator_id |-> Find(catalogueItems[i]).operator_id]]
      usedProductIds == {merged[i].operator_id : i \in 1..Len(merged)} \ {<<>>}
      Unmatched(p) == p.operator_id \notin usedProductIds
  IN merged \o SelectSeq(productsData, Unmatched)

normalizeGlobeTopper(catalogueItems, productsData) ==
  LET allProducts == GlobeTopperJoin(catalogueItems, productsData)
      RawOf(p) == IF p.topup_product_id # <<>> THEN p.topup_product_id ELSE p.operator_id
  IN [i \in 1..Len(allProducts) |->
        Product("globetopper",
                PROVIDER_TO_CODE["globetopper"] \o <<Underscore>> \o RawOf(allProducts[i]))]

normalizeDtOne(products) ==
  [i \in 1..Len(products) |->
     Product("dtone", PROVIDER_TO_CODE["dtone"] \o <<Underscore>> \o products[i].id)]

normalizePpn(data) ==
  [i \in 1..Len(data) |->
     Product("ppn", PROVIDER_TO_CODE["ppn"] \o <<Underscore>> \o data[i].id)]

\* fault variant: the Billers normalizer tags its products as DT-One
normalizeBillersMistagged(data) ==
  [i \in 1..Len(data) |->
     Product("dtone", PROVIDER_TO_CODE["billers"] \o <<Underscore>> \o data[i].id)]

normalizeBillers(data) ==
  [i \in 1..Len(data) |->
     Product("billers", PROVIDER_TO_CODE["billers"] \o <<Underscore>> \o data[i].id)]

\* fault variant: identifiers are left as they were saved
migrateCacheProductsKeeping(products) == products

migrateCacheProducts(products) ==
  [i \in 1..Len(products) |->
     IF encodeProductId(products[i].BillerID) # products[i].BillerID
       THEN [products[i] EXCEPT !.BillerID = encodeProductId(products[i].BillerID)]
       ELSE products[i]]

\* ------------------------------------------------------ upstream responses
\* What an upstream listing call can return: the first m records of the
\* provider's catalogue.
RawList(m) == [i \in 1..m |-> [id |-> RawId(i)]]
RawLists == {RawList(m) : m \in 0..MaxFetch}
Threw == [ok |-> FALSE, data |-> <<>>]
GtThrew == [ok |-> FALSE, cat |-> <<>>, prods |-> <<>>]
\* dtone.getAllProducts and billers.getAllBillers catch page errors and
\* return what they have; globetopper and ppn calls can reject.
ListOutcomes == RawLists
ThrowingOutcomes == {[ok |-> TRUE, data |-> l] : l \in RawLists} \cup {Threw}
GtCatalogues == {[i \in 1..m |-> CatItem(RawId(i))] : m \in 0..MaxFetch}
GtProducts == {[i \in 1..m |-> ProdItem(RawId(i))] : m \in 0..MaxFetch}
GtOutcomes ==
  {[ok |-> TRUE, cat |-> c, prods |-> p] : c \in GtCatalogues, p \in GtProducts}
    \cup {GtThrew}

\* ------------------------------------------------------------------- state
VARIABLES
  booted,        \* module initialisation (loadCacheFromDisk) has run
  loadResult,    \* what loadCacheFromDisk returned
  productCache,  \* provider -> [products, timestamp]
  cacheWarming,  \* the single-flight flag
  disk,          \* the cache file
  ppnEnabled,    \* process.env.PPN_ENABLED !== 'false'
  diskWritable,  \* the cache directory and file can be written
  now,           \* Date.now()
  events,        \* timer firings, clock advances, requests and upstream responses so far
  warm,          \* warmUpCache invocations, oldest first: the position of each
  lastLog,       \* the last per-provider log line of a warm-up pass
  saves,         \* saveCacheToDisk calls so far
  queries,       \* getAllProducts invocations awaiting a live call
  response,      \* what the last finished getAllProducts call returned
  codec,         \* an identifier under the codec: the calls made on it and their results
  listing,       \* a merged list under the filters and the pagination of getAllProducts
  detail,        \* a getProductById call: its identifier, the provider calls it made, its result
  client,        \* a DT-One client call: its requests, failures and pages so far
  join           \* a catalogue and a product list under normalizeGlobeTopper

vars == <<booted, loadResult, productCache, cacheWarming, disk, ppnEnabled,
          diskWritable, now, events, warm, lastLog, saves, queries, response, codec,
          listing, detail, client, join>>
\* what the functions checked on their own are applied to
functionVars == <<codec, listing, detail, client, join>>

\* the cache file: kind is "nofile", "badjson" or "snapshot"
NoSnapshot == [p \in Providers |-> <<>>]
NoFile == [kind |-> "nofile", data |-> NoSnapshot]
BadJson == [kind |-> "badjson", data |-> NoSnapshot]
Snapshot(data) == [kind |-> "snapshot", data |-> data]

EmptySlot == [products |-> <<>>, timestamp |-> 0]

\* fault variant: a slot exactly one TTL old still counts as fresh
isCacheReadyInclusive(provider) ==
  Len(productCache[provider].products) > 0
    /\ now - productCache[provider].timestamp <= CACHE_TTL

isCacheReady(provider) ==
  Len(productCache[provider].products) > 0
    /\ now - productCache[provider].timestamp < CACHE_TTL

hasCacheData(provider) == Len(productCache[provider].products) > 0

\* ---------------------------------------------------------- initial state
\* A snapshot left by an earlier run: provider -> product list.  Earlier
\* releases wrote provider-name prefixes (dtone_7) and bare GlobeTopper ids.
LegacyId(provider, i) ==
  IF provider = "globetopper" THEN RawId(i)
  ELSE Chars(provider) \o <<Underscore>> \o RawId(i)
LegacySnapshot(count) ==
  Snapshot([p \in Providers |-> [i \in 1..count[p] |-> Product(p, LegacyId(p, i))]])
InitDisks ==
  {NoFile,
   LegacySnapshot([p \in Providers |-> 1])}

\* ------------------------------------------------------------ text filters
\* an absent category or search filter
NoText == ""
\* The raw records of this model carry an id only, so each normalizer fills
\* in its default category and an empty name.
DefaultCategory(provider) ==
  CASE provider = "globetopper" -> NoText
    [] provider = "dtone" -> "Topup"
    [] provider = "ppn" -> "Topup"
    [] provider = "billers" -> "Bill Payment"
\* String.prototype.toLowerCase on the names that occur
ToLowerCase(name) ==
  CASE name = "Topup" -> "topup"
    [] name = "Top-Up" -> "top-up"
    [] name = "Bill Payment" -> "bill payment"
    [] name = "Other" -> "other"
    [] name = "TOP" -> "top"
    [] name = "Gift" -> "gift"
    [] name = "Data" -> "data"
    [] OTHER -> name
CATEGORY_ALIAS_MAP == ("top-up" :> "Top-Up") @@ ("top up" :> "Top-Up") @@ ("topup" :> "Top-Up")
normalizeCategory(rawName) ==
  IF rawName = NoText THEN "Other"
  ELSE IF ToLowerCase(rawName) \in DOMAIN CATEGORY_ALIAS_MAP
    THEN CATEGORY_ALIAS_MAP[ToLowerCase(rawName)]
  ELSE rawName
\* the category name of a product after ensureOrchestratorFields
CategoryName(product) ==
  normalizeCategory(IF DefaultCategory(product.provider) = NoText THEN "Other"
                    ELSE DefaultCategory(product.provider))
\* catName.toLowerCase().includes(cat)
CategoryMatches(product, category) ==
  Includes(Chars(ToLowerCase(CategoryName(product))), Chars(ToLowerCase(category)))
\* productName, which is also the brand and the description of the products
\* of this model; empty for a product made from a record that carries an id only
ProductName(product) ==
  IF "productName" \in DOMAIN product THEN product.productName ELSE NoText
\* p.productName?.toLowerCase().includes(s) || p.brand... || p.description...
SearchMatches(product, search) ==
  Includes(Chars(ToLowerCase(ProductName(product))), Chars(ToLowerCase(search)))
\* the country filter of a cached branch: p.iso2 === country || p.countryCode === country
CountryFiltered(products, country) ==
  LET InCountry(x) == x.iso2 = country
  IN IF country = NoText THEN products ELSE SelectSeq(products, InCountry)

\* an absent limit: the whole list is returned
NoLimit == 0
\* an absent page number
NoPage == 0
\* parseInt(page) || 1
PageNum(page) == IF page = NoPage THEN 1 ELSE page
\* Array.prototype.slice(start, end) for 0 <= start <= end
Slice(s, start, end) ==
  SubSeq(s, start + 1, IF end < Len(s) THEN end ELSE Len(s))
\* Math.ceil(n / d) for n >= 0 and d >= 1
Ceil(n, d) == IF n % d = 0 THEN n \div d ELSE (n \div d) + 1

\* fault variant: the page number is taken as a zero-based index
PaginatedFromPageZero(products, page, limit) ==
  IF limit = NoLimit THEN products
  ELSE Slice(products, PageNum(page) * limit, PageNum(page) * limit + limit)

\* the products of the page asked for; the whole list when no limit is given
Paginated(products, page, limit) ==
  IF limit = NoLimit THEN products
  ELSE Slice(products, (PageNum(page) - 1) * limit, (PageNum(page) - 1) * limit + limit)

\* pagination.totalPages
TotalPages(total, limit) == IF limit = NoLimit THEN 1 ELSE Ceil(total, limit)

\* the category filter, then the search filter
TextFiltered(products, category, search) ==
  LET InCategory(x) == category = NoText \/ CategoryMatches(x, category)
      Found(x) == search = NoText \/ SearchMatches(x, search)
  IN SelectSeq(SelectSeq(products, InCategory), Found)

NoLog == [call |-> 0, provider |-> "none", outcome |-> "none", count |-> 0]
IdleQuery == [pc |-> "idle", filter |-> "all", category |-> NoText, search |-> NoText,
              limit |-> NoLimit, total |-> -1, at |-> 0, products |-> <<>>,
              counts |-> [p \in Providers |-> -1],
              source |-> [p \in Providers |-> "none"],
              seen |-> [p \in Providers |-> -1],
              liveCalls |-> [p \in Providers |-> 0],
              threw |-> FALSE]
NoResponse == [pending |-> FALSE, result |-> IdleQuery, started |-> 0]
QueryFilters == {"all"} \cup Providers
\* no list is under the filters and the pagination
NoListing == [stage |-> "none",
              held |-> [p \in Providers |-> [source |-> "none", products |-> <<>>]],
              country |-> NoText, category |-> NoText, search |-> NoText,
              provider |-> "all", page |-> NoPage, limit |-> NoLimit,
              merged |-> <<>>, filtered |-> <<>>,
              products |-> <<>>, total |-> -1, totalPages |-> -1]
\* no getProductById call, no client call, no join
NoDetail == [stage |-> "none", id |-> <<>>, decoded |-> Decoded("none", <<>>, <<>>),
             encodedId |-> <<>>, calls |-> <<>>, lookup |-> "none", matched |-> FALSE,
             biller |-> <<>>, skusReply |-> "none", skus |-> <<>>, inputsReply |-> <<>>,
             result |-> [kind |-> "none"]]
NoClient == [op |-> "none", stage |-> "none", attempts |-> 0, requests |-> 0,
             last |-> "none", pages |-> 0, page |-> 0, totalPages |-> 0,
             consecutiveErrors |-> 0, pageRequests |-> 0, allProducts |-> <<>>]
NoJoin == [stage |-> "none", catalogue |-> <<>>, products |-> <<>>, allProducts |-> <<>>,
           normalized |-> <<>>]
\* no identifier is under the codec
NoCodec == [stage |-> "none", provider |-> "none", raw |-> <<>>, id |-> <<>>,
            encoded |-> <<>>, again |-> <<>>, decoded |-> Decoded("none", <<>>, <<>>)]

Init ==
  /\ booted = FALSE
  /\ loadResult = FALSE
  /\ productCache = [p \in Providers |-> EmptySlot]
  /\ cacheWarming = FALSE
  /\ disk \in InitDisks
  /\ ppnEnabled \in BOOLEAN
  /\ diskWritable \in BOOLEAN
  /\ now = StartTime
  /\ events = 0
  /\ warm = <<>>
  /\ lastLog = NoLog
  /\ saves = 0
  /\ queries = <<>>
  /\ response = NoResponse
  /\ codec = NoCodec
  /\ listing = NoListing
  /\ detail = NoDetail
  /\ client = NoClient
  /\ join = NoJoin

\* fault variant: the flag is not consulted
PpnSkippedNever == FALSE

\* process.env.PPN_ENABLED === 'false'
PpnSkipped == ~ppnEnabled

\* no promise continuation is pending: timers and I/O callbacks can run
Idle == booted /\ ~response.pending

\* sequence s without its j-th element
Remove(s, j) == SubSeq(s, 1, j - 1) \o SubSeq(s, j + 1, Len(s))

\* --------------------------------------------------------- disk persistence
\* an array element of a saved product list that is null: reading its
\* BillerID in migrateCacheProducts raises a TypeError
NullProduct == [provider |-> "null", BillerID |-> <<>>]
MigrateThrows(products) == \E i \in 1..Len(products) : products[i] = NullProduct

\* the order in which loadCacheFromDisk visits the providers
LoadOrder == <<"globetopper", "dtone", "ppn", "billers">>
\* the positions of the providers whose list makes the loop throw
LoadStops == {k \in 1..Len(LoadOrder) : MigrateThrows(disk.data[LoadOrder[k]])}
\* how many providers the loop gets through before it throws, if it does
LoadReach ==
  IF LoadStops = {} THEN Len(LoadOrder)
  ELSE (CHOOSE k \in LoadStops : \A l \in LoadStops : k <= l) - 1

\* fault variant: loaded slots keep the zero timestamp
LoadedSlotsUnstamped ==
  IF disk.kind # "snapshot" THEN productCache
  ELSE [p \in Providers |->
          IF Len(disk.data[p]) > 0 /\ \E k \in 1..LoadReach : LoadOrder[k] = p
            THEN [products |-> migrateCacheProducts(disk.data[p]), timestamp |-> 0]
            ELSE productCache[p]]

LoadedSlots ==
  IF disk.kind # "snapshot" THEN productCache
  ELSE [p \in Providers |->
          IF Len(disk.data[p]) > 0 /\ \E k \in 1..LoadReach : LoadOrder[k] = p
            THEN [products |-> migrateCacheProducts(disk.data[p]), timestamp |-> now]
            ELSE productCache[p]]

\* fault variant: true whenever the file exists
LoadReturnFileFound == disk.kind # "nofile"

\* what loadCacheFromDisk returns: true from inside the try when something
\* was loaded, false from the missing-file test, the end of the try and the catch
LoadReturn ==
  /\ disk.kind = "snapshot"
  /\ LoadStops = {}
  /\ \E p \in Providers : Len(disk.data[p]) > 0

loadCacheFromDisk ==
  /\ UNCHANGED functionVars
  /\ ~booted
  /\ booted' = TRUE
  /\ productCache' = LoadedSlots
  /\ loadResult' = LoadReturn
  /\ UNCHANGED <<cacheWarming, disk, ppnEnabled, diskWritable, now, events, warm, lastLog, saves,
                 queries, response>>

\* the file's content after saveCacheToDisk; a write error is caught
saveCacheToDisk(cache) ==
  IF diskWritable THEN Snapshot([p \in Providers |-> cache[p].products]) ELSE disk

\* ------------------------------------------------------------------ clock
Tick ==
  /\ UNCHANGED functionVars
  /\ Idle
  /\ events < MaxEvents
  /\ events' = events + 1
  /\ now' = now + TickStep
  /\ UNCHANGED <<booted, loadResult, productCache, cacheWarming, disk, ppnEnabled,
                 diskWritable, warm, lastLog, saves, queries, response>>

\* ---------------------------------------------------------------- warm-up
\* fault variant: warmUpCache without its guard
WarmEnteredUnguarded(warming) == "globetopper"

\* warmUpCache up to its first await: the guard, the flag, the GlobeTopper
\* calls issued.  The position of the invocation after the call:
WarmEntered(warming) == IF warming THEN "noop" ELSE "globetopper"

\* setTimeout(warmUpCache, 5000) and setInterval(warmUpCache, CACHE_TTL)
TimerWarmUp ==
  /\ UNCHANGED functionVars
  /\ Idle
  /\ events < MaxEvents
  /\ events' = events + 1
  /\ warm' = Append(warm, WarmEntered(cacheWarming))
  /\ cacheWarming' = TRUE
  /\ UNCHANGED <<booted, loadResult, productCache, disk, ppnEnabled, diskWritable, now, lastLog,
                 saves, queries, response>>

\* fault variant: a replaced slot is not stamped with the time
FreshAtZero(products) == [products |-> products, timestamp |-> 0]

\* a replaced slot: { products, timestamp: Date.now() }
Fresh(products) == [products |-> products, timestamp |-> now]

\* fault variant: a failed GlobeTopper fetch empties the slot
GlobeTopperSlotClearedOnFailure(slot, outcome) ==
  IF ~outcome.ok THEN [products |-> <<>>, timestamp |-> now]
  ELSE Fresh(normalizeGlobeTopper(outcome.cat, outcome.prods))

\* the slot after the GlobeTopper block of warmUpCache
GlobeTopperSlot(slot, outcome) ==
  IF ~outcome.ok THEN slot
  ELSE Fresh(normalizeGlobeTopper(outcome.cat, outcome.prods))

\* fault variant: no regression guard
AcceptsUnguarded(slot, fetched) == TRUE

\* the regression guard of the DT-One and Billers blocks
Accepts(slot, fetched) ==
  Len(fetched) >= Len(slot.products) \/ Len(slot.products) = 0

\* fault variant: the rejecting branch overwrites the products and keeps
\* the old timestamp
DtOneSlotPartialOverwrite(slot, fetched) ==
  IF Len(fetched) >= Len(slot.products) \/ Len(slot.products) = 0
    THEN Fresh(normalizeDtOne(fetched))
    ELSE [slot EXCEPT !.products = normalizeDtOne(fetched)]

DtOneSlot(slot, fetched) ==
  IF Accepts(slot, fetched) THEN Fresh(normalizeDtOne(fetched))
  ELSE [slot EXCEPT !.products = migrateCacheProducts(slot.products)]

BillersSlot(slot, fetched) ==
  IF Accepts(slot, fetched) THEN Fresh(normalizeBillers(fetched))
  ELSE [slot EXCEPT !.products = migrateCacheProducts(slot.products)]

PpnSlot(slot, outcome) ==
  IF ~outcome.ok THEN slot ELSE Fresh(normalizePpn(outcome.data))

Log(i, provider, outcome, count) ==
  [call |-> i, provider |-> provider, outcome |-> outcome, count |-> count]

\* fault variant: the pass ends without saving
WarmFinishWithoutSave(cache) ==
  /\ cacheWarming' = FALSE
  /\ UNCHANGED <<disk, saves>>

\* the tail of warmUpCache: clear the flag, save to disk
WarmFinish(cache) ==
  /\ cacheWarming' = FALSE
  /\ disk' = saveCacheToDisk(cache)
  /\ saves' = saves + 1

\* fault variant: no catch around the GlobeTopper block, a rejection ends
\* warmUpCache before the flag is cleared
AfterGlobeTopperUncaught(outcome) == IF outcome.ok THEN "dtone" ELSE "done"

\* where warmUpCache goes on after the GlobeTopper block: the catch only logs
AfterGlobeTopper(outcome) == "dtone"

\* the GlobeTopper block of warmUpCache, resumed with both replies
WarmGlobeTopperBlock(i, outcome) ==
  /\ UNCHANGED functionVars
  /\ Idle
  /\ warm[i] = "globetopper"
  /\ productCache' =
       [productCache EXCEPT !["globetopper"] = GlobeTopperSlot(@, outcome)]
  /\ warm' = [warm EXCEPT ![i] = AfterGlobeTopper(outcome)]
  /\ lastLog' = IF outcome.ok
                  THEN Log(i, "globetopper", "accepted",
                           Len(normalizeGlobeTopper(outcome.cat, outcome.prods)))
                  ELSE Log(i, "globetopper", "failed", 0)
  /\ UNCHANGED <<booted, loadResult, cacheWarming, disk, ppnEnabled, diskWritable, now, saves, queries, response>>

WarmGlobeTopper(i, outcome) ==
  /\ events < MaxEvents
  /\ events' = events + 1
  /\ WarmGlobeTopperBlock(i, outcome)

\* the DT-One block of warmUpCache, resumed with the client's list
WarmDtOneBlock(i, fetched) ==
  /\ UNCHANGED functionVars
  /\ Idle
  /\ warm[i] = "dtone"
  /\ productCache' = [productCache EXCEPT !["dtone"] = DtOneSlot(@, fetched)]
  /\ warm' = [warm EXCEPT ![i] = "billers"]
  /\ lastLog' = Log(i, "dtone",
                    IF Accepts(productCache["dtone"], fetched)
                      THEN "accepted" ELSE "rejected",
                    Len(fetched))
  /\ UNCHANGED <<booted, loadResult, cacheWarming, disk, ppnEnabled, diskWritable, now, saves, queries, response>>

WarmDtOne(i, fetched) ==
  /\ events < MaxEvents
  /\ events' = events + 1
  /\ WarmDtOneBlock(i, fetched)

\* the Billers block, and the tail of warmUpCache when PPN is skipped
WarmBillersBlock(i, fetched) ==
  /\ UNCHANGED functionVars
  /\ Idle
  /\ warm[i] = "billers"
  /\ productCache' = [productCache EXCEPT !["billers"] = BillersSlot(@, fetched)]
  /\ warm' = [warm EXCEPT ![i] = IF PpnSkipped THEN "done" ELSE "ppn"]
  /\ lastLog' = Log(i, "billers",
                    IF Accepts(productCache["billers"], fetched)
                      THEN "accepted" ELSE "rejected",
                    Len(fetched))
  /\ IF PpnSkipped
       THEN WarmFinish(productCache')
       ELSE UNCHANGED <<cacheWarming, disk, saves>>
  /\ UNCHANGED <<booted, loadResult, ppnEnabled, diskWritable, now, queries, response>>

WarmBillers(i, fetched) ==
  /\ events < MaxEvents
  /\ events' = events + 1
  /\ WarmBillersBlock(i, fetched)

\* the PPN block and the tail of warmUpCache
WarmPpnBlock(i, outcome) ==
  /\ UNCHANGED functionVars
  /\ Idle
  /\ warm[i] = "ppn"
  /\ productCache' = [productCache EXCEPT !["ppn"] = PpnSlot(@, outcome)]
  /\ warm' = [warm EXCEPT ![i] = "done"]
  /\ lastLog' = IF outcome.ok
                  THEN Log(i, "ppn", "accepted", Len(outcome.data))
                  ELSE Log(i, "ppn", "failed", 0)
  /\ WarmFinish(productCache')
  /\ UNCHANGED <<booted, loadResult, ppnEnabled, diskWritable, now, queries, response>>

WarmPpn(i, outcome) ==
  /\ events < MaxEvents
  /\ events' = events + 1
  /\ WarmPpnBlock(i, outcome)

\* ------------------------------------------------------------------ queries
\* what a live listing call of getAllProducts can resolve to, normalized
LiveOk(products) == [ok |-> TRUE, products |-> products]
LiveThrew == [ok |-> FALSE, products |-> <<>>]
LiveOutcomes ==
  [provider \in Providers |->
     CASE provider = "globetopper" ->
            {LiveOk(normalizeGlobeTopper(c, p)) : c \in GtCatalogues, p \in GtProducts}
              \cup {LiveThrew}
       [] provider = "dtone" -> {LiveOk(normalizeDtOne(l)) : l \in RawLists}
       [] provider = "ppn" -> {LiveOk(normalizePpn(l)) : l \in RawLists} \cup {LiveThrew}
       [] provider = "billers" -> {LiveOk(normalizeBillers(l)) : l \in RawLists}]

\* fault variant: no catch around the live fetch
LiveSettledUncaught(q, provider, outcome) ==
  IF outcome.ok
    THEN [q EXCEPT !.counts[provider] = Len(outcome.products),
                   !.products = @ \o outcome.products,
                   !.source[provider] = "live"]
    ELSE [q EXCEPT !.threw = TRUE]

\* the try/catch around a live fetch: what the call's record becomes when
\* the awaited provider call settles
LiveSettled(q, provider, outcome) ==
  IF outcome.ok
    THEN [q EXCEPT !.counts[provider] = Len(outcome.products),
                   !.products = @ \o outcome.products,
                   !.source[provider] = "live"]
    ELSE [q EXCEPT !.counts[provider] = 0, !.source[provider] = "livefailed"]

\* fault variant: a returned live fetch is stored in the slot
SlotAfterLivePopulated(slot, outcome) ==
  IF outcome.ok /\ Len(outcome.products) > 0 THEN Fresh(outcome.products) ELSE slot

\* the slot of a provider after its live fetch settled: the live branch
\* assigns nothing to productCache
SlotAfterLive(slot, outcome) == slot

\* fault variant: the count is taken after the text filters
FromCacheCountingFiltered(q, provider) ==
  [q EXCEPT !.counts[provider] =
              Len(TextFiltered(productCache[provider].products, q.category, q.search)),
            !.products = @ \o productCache[provider].products,
            !.source[provider] = "cache"]

\* one provider block of getAllProducts with data in the slot
FromCache(q, provider) ==
  [q EXCEPT !.counts[provider] = Len(productCache[provider].products),
            !.products = @ \o productCache[provider].products,
            !.source[provider] = "cache"]

\* the record notes how many products the slot held when its block ran
Seen(q, provider) ==
  [q EXCEPT !.seen[provider] = Len(productCache[provider].products)]

\* one provider block that has to await a live call
AwaitLive(q, k) ==
  [q EXCEPT !.pc = "await", !.at = k, !.liveCalls[QueryOrder[k]] = @ + 1]

\* fault variant: only a fresh slot is served from the cache
UsesCacheFreshOnly(provider) == isCacheReady(provider)

\* whether a provider block of getAllProducts takes its cached branch
UsesCache(provider) == isCacheReady(provider) \/ hasCacheData(provider)

\* getAllProducts from provider block k on, up to the next await or the end
\* of the provider blocks
RECURSIVE Scan(_, _)
Scan(q, k) ==
  IF k > Len(QueryOrder) THEN [q EXCEPT !.pc = "finish", !.at = k]
  ELSE
    LET provider == QueryOrder[k] IN
    IF q.threw THEN [q EXCEPT !.pc = "finish", !.at = k]
    ELSE IF q.filter # "all" /\ q.filter # provider THEN Scan(q, k + 1)
    ELSE IF provider = "ppn" /\ PpnSkipped
      THEN Scan([q EXCEPT !.counts[provider] = 0, !.source[provider] = "disabled"], k + 1)
    ELSE IF UsesCache(provider) THEN Scan(FromCache(Seen(q, provider), provider), k + 1)
    ELSE AwaitLive(Seen(q, provider), k)

\* fault variant: an empty slot counts as stale
TriggerWhenNotReady ==
  (\E p \in Providers : ~isCacheReady(p)) /\ ~cacheWarming

triggerBackgroundRefreshIfStale ==
  (\E p \in Providers : ~isCacheReady(p) /\ hasCacheData(p)) /\ ~cacheWarming

\* the rest of getAllProducts after the provider blocks: the staleness
\* trigger (which may enter warmUpCache) and the returned object
Return(q) ==
  /\ response' = [pending |-> TRUE,
                  result |-> [q EXCEPT !.pc = "done",
                                       !.products = Paginated(TextFiltered(@, q.category, q.search),
                                                              NoPage, q.limit),
                                       !.total = Len(TextFiltered(q.products, q.category, q.search))],
                  started |-> IF triggerBackgroundRefreshIfStale /\ ~q.threw
                                THEN 1 ELSE 0]
  /\ IF triggerBackgroundRefreshIfStale /\ ~q.threw
       THEN /\ warm' = Append(warm, WarmEntered(cacheWarming))
            /\ cacheWarming' = TRUE
       ELSE UNCHANGED <<warm, cacheWarming>>

\* getAllProducts({ provider, category, search, limit })
getAllProductsWith(filter, category, search, limit) ==
  /\ UNCHANGED functionVars
  /\ Idle
  /\ events < MaxEvents
  /\ events' = events + 1
  /\ LET q == Scan([IdleQuery EXCEPT !.filter = filter, !.category = category,
                                     !.search = search, !.limit = limit], 1) IN
       IF q.pc = "finish"
         THEN Return(q) /\ UNCHANGED queries
         ELSE /\ queries' = Append(queries, q)
              /\ UNCHANGED <<response, warm, cacheWarming>>
  /\ UNCHANGED <<booted, loadResult, productCache, disk, ppnEnabled, diskWritable,
                 now, lastLog, saves>>

\* getAllProducts({ provider }): no text filter
getAllProducts(filter) == getAllProductsWith(filter, NoText, NoText, NoLimit)

LiveResume(j, outcome) ==
  /\ UNCHANGED functionVars
  /\ Idle
  /\ events < MaxEvents
  /\ events' = events + 1
  /\ outcome \in LiveOutcomes[QueryOrder[queries[j].at]]
  /\ LET q == Scan(LiveSettled(queries[j], QueryOrder[queries[j].at], outcome),
                   queries[j].at + 1) IN
       IF q.pc = "finish"
         THEN Return(q) /\ queries' = Remove(queries, j)
         ELSE /\ queries' = [queries EXCEPT ![j] = q]
              /\ UNCHANGED <<response, warm, cacheWarming>>
  /\ productCache' =
       [productCache EXCEPT ![QueryOrder[queries[j].at]] = SlotAfterLive(@, outcome)]
  /\ UNCHANGED <<booted, loadResult, disk, ppnEnabled, diskWritable,
                 now, lastLog, saves>>

\* the controller's continuation: res.json(result), run as soon as the
\* promise of getAllProducts resolves, before any timer or I/O callback
Respond ==
  /\ UNCHANGED functionVars
  /\ response.pending
  /\ response' = NoResponse
  /\ UNCHANGED <<booted, loadResult, productCache, cacheWarming, disk, ppnEnabled,
                 diskWritable, now, events, warm, lastLog, saves, queries>>

AllLiveOutcomes == UNION {LiveOutcomes[p] : p \in Providers}

Next ==
  \/ loadCacheFromDisk
  \/ Tick
  \/ TimerWarmUp
  \/ \E i \in 1..Len(warm), outcome \in GtOutcomes : WarmGlobeTopper(i, outcome)
  \/ \E i \in 1..Len(warm), fetched \in ListOutcomes : WarmDtOne(i, fetched)
  \/ \E i \in 1..Len(warm), fetched \in ListOutcomes : WarmBillers(i, fetched)
  \/ \E i \in 1..Len(warm), outcome \in ThrowingOutcomes : WarmPpn(i, outcome)
  \/ Respond
  \/ \E filter \in QueryFilters : getAllProducts(filter)
  \/ \E j \in 1..Len(queries), outcome \in AllLiveOutcomes : LiveResume(j, outcome)

Spec == Init /\ [][Next]_vars

\* ------------------------------------------------- a finer-grained clock
\* Date.now() advances by a millisecond or by one millisecond less than the
\* TTL, so that the ages TTL - 1, TTL and TTL + 1 of a slot all occur.
TickSteps == {1, CACHE_TTL - 1}

TickFine(d) ==
  /\ UNCHANGED functionVars
  /\ Idle
  /\ events < MaxEvents
  /\ events' = events + 1
  /\ now' = now + d
  /\ UNCHANGED <<booted, loadResult, productCache, cacheWarming, disk, ppnEnabled,
                 diskWritable, warm, lastLog, saves, queries, response>>

NextClock ==
  \/ loadCacheFromDisk
  \/ \E d \in TickSteps : TickFine(d)
  \/ TimerWarmUp
  \/ \E i \in 1..Len(warm), outcome \in GtOutcomes : WarmGlobeTopper(i, outcome)
  \/ \E i \in 1..Len(warm), fetched \in ListOutcomes : WarmDtOne(i, fetched)
  \/ \E i \in 1..Len(warm), fetched \in ListOutcomes : WarmBillers(i, fetched)
  \/ \E i \in 1..Len(warm), outcome \in ThrowingOutcomes : WarmPpn(i, outcome)
  \/ Respond
  \/ \E filter \in QueryFilters : getAllProducts(filter)
  \/ \E j \in 1..Len(queries), outcome \in AllLiveOutcomes : LiveResume(j, outcome)

SpecClock == Init /\ [][NextClock]_vars

\* ------------------------------------------------ requests with text filters
\* The requests of this specification carry one of: nothing, a category
\* filter, a search filter, a limit.
RequestOptions ==
  { [category |-> NoText, search |-> NoText, limit |-> NoLimit],
    [category |-> "top-up", search |-> NoText, limit |-> NoLimit],
    [category |-> NoText, search |-> "gift", limit |-> NoLimit],
    [category |-> NoText, search |-> NoText, limit |-> 1] }
FilterProviders == {"all"}

NextFilter ==
  \/ loadCacheFromDisk
  \/ Tick
  \/ TimerWarmUp
  \/ \E i \in 1..Len(warm), outcome \in GtOutcomes : WarmGlobeTopper(i, outcome)
  \/ \E i \in 1..Len(warm), fetched \in ListOutcomes : WarmDtOne(i, fetched)
  \/ \E i \in 1..Len(warm), fetched \in ListOutcomes : WarmBillers(i, fetched)
  \/ \E i \in 1..Len(warm), outcome \in ThrowingOutcomes : WarmPpn(i, outcome)
  \/ Respond
  \/ \E filter \in FilterProviders, o \in RequestOptions :
       getAllProductsWith(filter, o.category, o.search, o.limit)
  \/ \E j \in 1..Len(queries), outcome \in AllLiveOutcomes : LiveResume(j, outcome)

SpecFilter == Init /\ [][NextFilter]_vars

\* ------------------------------------------------ start from any cache file
\* a product as the current release saves it: numeric-code identifier
CodedId(provider, i) == PROVIDER_TO_CODE[provider] \o <<Underscore>> \o RawId(i)
\* a snapshot holding products of one provider only: one saved by an earlier
\* release (legacy identifier), one saved by the current release
SingleSnapshot(c) ==
  Snapshot([p \in Providers |->
              IF p = c THEN <<Product(c, LegacyId(c, 1)), Product(c, CodedId(c, 2))>>
              ELSE <<>>])
\* snapshots with a null element in one provider's list
MalformedSnapshot(bad) ==
  Snapshot([p \in Providers |->
              IF p = bad THEN <<NullProduct>> ELSE <<Product(p, LegacyId(p, 1))>>])
BootDisks ==
  {NoFile, BadJson} \cup {SingleSnapshot(c) : c \in Providers}
    \cup {MalformedSnapshot("globetopper"), MalformedSnapshot("dtone")}

InitBoot ==
  /\ booted = FALSE
  /\ loadResult = FALSE
  /\ productCache = [p \in Providers |-> EmptySlot]
  /\ cacheWarming = FALSE
  /\ disk \in BootDisks
  /\ ppnEnabled \in BOOLEAN
  /\ diskWritable \in BOOLEAN
  /\ now = StartTime
  /\ events = 0
  /\ warm = <<>>
  /\ lastLog = NoLog
  /\ saves = 0
  /\ queries = <<>>
  /\ response = NoResponse
  /\ codec = NoCodec
  /\ listing = NoListing
  /\ detail = NoDetail
  /\ client = NoClient
  /\ join = NoJoin

\* the requests of this specification each name one provider
NextBoot ==
  \/ loadCacheFromDisk
  \/ Tick
  \/ TimerWarmUp
  \/ \E i \in 1..Len(warm), outcome \in GtOutcomes : WarmGlobeTopper(i, outcome)
  \/ \E i \in 1..Len(warm), fetched \in ListOutcomes : WarmDtOne(i, fetched)
  \/ \E i \in 1..Len(warm), fetched \in ListOutcomes : WarmBillers(i, fetched)
  \/ \E i \in 1..Len(warm), outcome \in ThrowingOutcomes : WarmPpn(i, outcome)
  \/ Respond
  \/ \E filter \in Providers : getAllProducts(filter)
  \/ \E j \in 1..Len(queries), outcome \in AllLiveOutcomes : LiveResume(j, outcome)

SpecBoot == InitBoot /\ [][NextBoot]_vars

\* ------------------------------------------------------ the codec alone
MaxSegments == 2   \* most underscore-separated parts of a raw identifier

\* the parts raw identifiers are made of: nothing, a digit, numeric codes,
\* provider names, an inherited property name
Segments ==
  {<<>>, RawId(7), PROVIDER_TO_CODE["globetopper"], PROVIDER_TO_CODE["dtone"],
   Chars("dtone"), Chars("ppn"), Chars("globetopper"), <<"t", "o", "S", "t", "r", "i", "n", "g">>}
RECURSIVE IdsOf(_)
IdsOf(n) ==
  IF n <= 1 THEN Segments
  ELSE IdsOf(n - 1) \cup {a \o <<Underscore>> \o b : a \in Segments, b \in IdsOf(n - 1)}
RawIds == IdsOf(MaxSegments)

\* the provider-prefixed identifier of a provider's raw id: the bare raw id
\* for GlobeTopper, name_rawId for the others
InternalId(P, R) == IF P = "globetopper" THEN R ELSE Chars(P) \o <<Underscore>> \o R

serviceVars == <<booted, loadResult, productCache, cacheWarming, disk, ppnEnabled,
                 diskWritable, now, events, warm, lastLog, saves, queries, response>>

InitCodec ==
  /\ booted = FALSE
  /\ loadResult = FALSE
  /\ productCache = [p \in Providers |-> EmptySlot]
  /\ cacheWarming = FALSE
  /\ disk = NoFile
  /\ ppnEnabled = TRUE
  /\ diskWritable = TRUE
  /\ now = StartTime
  /\ events = 0
  /\ warm = <<>>
  /\ lastLog = NoLog
  /\ saves = 0
  /\ queries = <<>>
  /\ response = NoResponse
  /\ codec \in {[NoCodec EXCEPT !.stage = "given", !.provider = P, !.raw = R,
                                !.id = InternalId(P, R)] :
                  P \in Providers, R \in RawIds}
  /\ listing = NoListing
  /\ detail = NoDetail
  /\ client = NoClient
  /\ join = NoJoin

\* encodeProductId(id)
Encode ==
  /\ codec.stage = "given"
  /\ codec' = [codec EXCEPT !.stage = "encoded", !.encoded = encodeProductId(codec.id)]
  /\ UNCHANGED <<serviceVars, listing, detail, client, join>>

\* encodeProductId(encodeProductId(id))
EncodeAgain ==
  /\ codec.stage = "encoded"
  /\ codec' = [codec EXCEPT !.stage = "twice", !.again = encodeProductId(codec.encoded)]
  /\ UNCHANGED <<serviceVars, listing, detail, client, join>>

\* decodeProductId(encodeProductId(id))
DecodeEncoded ==
  /\ codec.stage = "encoded"
  /\ codec' = [codec EXCEPT !.stage = "roundtrip", !.decoded = decodeProductId(codec.encoded)]
  /\ UNCHANGED <<serviceVars, listing, detail, client, join>>

\* decodeProductId(id)
Decode ==
  /\ codec.stage = "given"
  /\ codec' = [codec EXCEPT !.stage = "decoded", !.decoded = decodeProductId(codec.id)]
  /\ UNCHANGED <<serviceVars, listing, detail, client, join>>

NextCodec == Encode \/ EncodeAgain \/ DecodeEncoded \/ Decode

SpecCodec == InitCodec /\ [][NextCodec]_vars

\* ------------------------------------------------------------ pagination
\* The tail of getAllProducts applied to a merged list, a page number and a
\* limit, each drawn from a bounded set.
MaxMerged == 4   \* most products in the merged list
MaxPage == 3     \* greatest page number asked for
MaxLimit == 3    \* greatest limit asked for

\* a merged list of n distinct products
MergedList(n) == [i \in 1..n |-> Product("dtone", CodedId("dtone", i))]

\* the service before module initialisation
ServiceAtRest ==
  /\ booted = FALSE
  /\ loadResult = FALSE
  /\ productCache = [p \in Providers |-> EmptySlot]
  /\ cacheWarming = FALSE
  /\ disk = NoFile
  /\ ppnEnabled = TRUE
  /\ diskWritable = TRUE
  /\ now = StartTime
  /\ events = 0
  /\ warm = <<>>
  /\ lastLog = NoLog
  /\ saves = 0
  /\ queries = <<>>
  /\ response = NoResponse

InitPage ==
  /\ ServiceAtRest
  /\ codec = NoCodec
  /\ detail = NoDetail
  /\ client = NoClient
  /\ join = NoJoin
  /\ listing \in {[NoListing EXCEPT !.stage = "filtered", !.filtered = MergedList(n),
                                    !.page = k, !.limit = l] :
                    n \in 0..MaxMerged, k \in {NoPage} \cup 1..MaxPage,
                    l \in {NoLimit} \cup 1..MaxLimit}

\* getAllProducts from "const total = allProducts.length" to its return
Paginate ==
  /\ listing.stage = "filtered"
  /\ listing' = [listing EXCEPT !.stage = "returned",
                                !.products = Paginated(listing.filtered, listing.page, listing.limit),
                                !.total = Len(listing.filtered),
                                !.totalPages = TotalPages(Len(listing.filtered), listing.limit)]
  /\ UNCHANGED <<serviceVars, codec, detail, client, join>>

NextPage == Paginate

SpecPage == InitPage /\ [][NextPage]_vars

\* =================================================================== claims
InProgress == {"globetopper", "dtone", "billers", "ppn"}
Running == {i \in 1..Len(warm) : warm[i] \in InProgress}
DoneCount(w) == Cardinality({i \in 1..Len(w) : w[i] = "done"})
Stale(p) ==
  Len(productCache[p].products) > 0 /\ now - productCache[p].timestamp >= CACHE_TTL
\* the normalized form of the first m records of a provider's catalogue
Normalized(p, m) ==
  CASE p = "globetopper" ->
         normalizeGlobeTopper([i \in 1..m |-> CatItem(RawId(i))], <<>>)
    [] p = "dtone" -> normalizeDtOne(RawList(m))
    [] p = "ppn" -> normalizePpn(RawList(m))
    [] p = "billers" -> normalizeBillers(RawList(m))
ProductsOf(products, p) ==
  LET Mine(x) == x.provider = p IN SelectSeq(products, Mine)
\* every getAllProducts record in sight: awaiting, or just returned
Records ==
  {queries[j] : j \in 1..Len(queries)}
    \cup (IF response.pending THEN {response.result} ELSE {})
\* a step in which a warm-up block logs that its fetch returned
FetchLogged == lastLog' # lastLog /\ lastLog'.outcome \in {"accepted", "rejected"}
Replaced(p) ==
  productCache'[p] = [products |-> Normalized(p, lastLog'.count), timestamp |-> now]
Guarded(p) ==
  IF Len(productCache[p].products) > 0 /\ lastLog'.count < Len(productCache[p].products)
    THEN productCache'[p] = productCache[p]
    ELSE Replaced(p)

\* C1 (as stated): for every provider slot, a warm-up fetch of M records
\* against a slot holding N > 0 products with M < N leaves the slot as it
\* was; otherwise the slot becomes the new normalized list stamped now.
C1_GuardOnEverySlot == [][FetchLogged => Guarded(lastLog'.provider)]_vars

\* C1 (amended): the regression guard covers the dtone and billers slots; a
\* returned globetopper or ppn fetch replaces its slot whatever the counts.
C1_GuardOnPaginatedSlots ==
  [][FetchLogged =>
       IF lastLog'.provider \in {"dtone", "billers"}
         THEN Guarded(lastLog'.provider)
         ELSE Replaced(lastLog'.provider)]_vars

C1_Witness ==
  /\ lastLog.provider = "dtone"
  /\ lastLog.outcome = "rejected"
  /\ lastLog.count < Len(productCache["dtone"].products)
  /\ productCache["dtone"].timestamp < now

\* C2: at most one warm-up pass is in progress at any time, and a
\* warmUpCache call made while one is in progress returns at once: no
\* provider call issued, no slot written, nothing saved.
C2_SingleFlight ==
  [][/\ Cardinality(Running') <= 1
     /\ (Len(warm') = Len(warm) + 1 /\ Running # {}) =>
          /\ warm'[Len(warm')] = "noop"
          /\ Running' = Running
          /\ productCache' = productCache
          /\ disk' = disk
          /\ saves' = saves]_vars

C2_Witness ==
  /\ \E i \in 1..Len(warm) : warm[i] = "noop"
  /\ Running # {}

C4_QueryFailureIsolated ==
  response.pending =>
    LET r == response.result IN
      /\ ~r.threw
      /\ \A p \in Providers :
           /\ r.source[p] = "livefailed" => r.counts[p] = 0
           /\ (r.filter \in {"all", p}) => r.counts[p] >= 0
           /\ Len(ProductsOf(r.products, p)) = (IF r.counts[p] >= 0 THEN r.counts[p] ELSE 0)

C4_Witness ==
  /\ response.pending
  /\ response.result.filter = "all"
  /\ \A p \in Providers : ~hasCacheData(p)
  /\ \E a, b \in Providers :
       /\ response.result.source[a] = "live"
       /\ response.result.counts[a] = MaxFetch
       /\ response.result.source[b] = "livefailed"
       /\ Len(response.result.products) >= MaxFetch

\* C5: a provider whose slot held products when its block ran is served
\* from the slot with no live call; a live call is made only for a slot
\* that was empty, and at most once per provider per call.
C5_ServeStale ==
  \A r \in Records : \A p \in Providers :
    /\ r.liveCalls[p] <= 1
    /\ r.seen[p] > 0 =>
         r.source[p] = "cache" /\ r.liveCalls[p] = 0 /\ r.counts[p] = r.seen[p]
    /\ r.liveCalls[p] = 1 => r.seen[p] = 0

C5_Witness ==
  \E r \in Records : \E p, l \in Providers :
    /\ r.source[p] = "cache"
    /\ Stale(p)
    /\ r.liveCalls[l] = 1

\* C6: a getAllProducts call that returns while some slot is Stale and no
\* pass is in progress starts exactly one pass, which is still at its first
\* fetch when the call returns; otherwise the call starts none.
C6_StalenessTrigger ==
  [][(~response.pending /\ response'.pending) =>
       IF (\E p \in Providers : Stale(p)) /\ Running = {}
         THEN /\ warm' = Append(warm, "globetopper")
              /\ response'.started = 1
         ELSE /\ warm' = warm
              /\ response'.started = 0]_vars

C6_Witness ==
  /\ response.pending
  /\ response.started = 1
  /\ Len(warm) > 0
  /\ warm[Len(warm)] = "globetopper"

\* C7: a pass saves once, in the step that ends it, after its last
\* provider block; a successful save writes the four slots' product lists
\* as they are then.
C7_SaveOncePerPass ==
  [][/\ saves' = DoneCount(warm')
     /\ saves' # saves =>
          /\ saves' = saves + 1
          /\ \E i \in 1..Len(warm) :
               /\ warm[i] = (IF ppnEnabled THEN "ppn" ELSE "billers")
               /\ warm'[i] = "done"
          /\ diskWritable =>
               disk' = Snapshot([p \in Providers |-> productCache'[p].products])
     /\ disk' # disk => saves' # saves]_vars

C7_Witness ==
  /\ saves = 1
  /\ lastLog.outcome \in {"failed", "rejected"}
  /\ disk = Snapshot([p \in Providers |-> productCache[p].products])
  /\ \E p \in Providers : hasCacheData(p)
  /\ Running = {}

\* C8: a slot changes only by one whole replacement: its new products are
\* the complete normalized list of one fetch (or of the disk snapshot) and
\* its fetchedAt is the time of that same update.
C8_AtomicSlotReplacement ==
  [][\A p \in Providers :
       productCache'[p] # productCache[p] =>
         /\ productCache'[p].timestamp = now
         /\ IF booted
              THEN /\ lastLog' # lastLog
                   /\ lastLog'.provider = p
                   /\ lastLog'.outcome = "accepted"
                   /\ productCache'[p].products = Normalized(p, lastLog'.count)
              ELSE productCache'[p].products = migrateCacheProducts(disk.data[p])]_vars

C8_Witness ==
  /\ Len(queries) > 0
  /\ Running # {}
  /\ lastLog.outcome = "accepted"
  /\ lastLog.count > 0
  /\ productCache[lastLog.provider].timestamp = now
  /\ \E p \in Providers : hasCacheData(p) /\ productCache[p].timestamp < now

\* C9 (as stated): a provider whose live fetch in getAllProducts returned a
\* non-empty list has its slot populated with the fetched products.
C9_LiveFetchPopulatesSlot ==
  response.pending =>
    \A p \in Providers :
      (response.result.source[p] = "live" /\ response.result.counts[p] > 0) =>
        productCache[p].products = ProductsOf(response.result.products, p)

\* C9 (amended): getAllProducts never writes a slot: the products of a live
\* fetch go to that call's result only.
C9_QueryLeavesCache ==
  [][(queries' # queries \/ response' # response) => productCache' = productCache]_vars

C9_Witness ==
  /\ response.pending
  /\ \E p \in Providers :
       /\ response.result.source[p] = "live"
       /\ response.result.counts[p] > 0
       /\ ~hasCacheData(p)

\* C10: every product in the slot of provider P carries provider = P.
C10_SlotOwnership ==
  \A p \in Providers :
    \A i \in 1..Len(productCache[p].products) : productCache[p].products[i].provider = p

C10_Witness ==
  /\ \A p \in Providers : hasCacheData(p)
  /\ lastLog.outcome = "accepted"
  /\ lastLog.count > 0
  /\ response.pending
  /\ Len(response.result.products) > 0

\* a returned call that awaited no live fetch: it read the slots in the
\* step that produced the response
ServedFromCacheOnly ==
  response.pending /\ \A p \in Providers : response.result.liveCalls[p] = 0

\* C11: a non-empty slot stamped T is Fresh (ready) at every time t with
\* t - T < TTL and not Fresh at every t with t - T >= TTL, and a call that
\* reads it returns exactly the slot's products in either state.
C11_FreshnessTransition ==
  /\ \A p \in Providers :
       Len(productCache[p].products) > 0 =>
         /\ (now - productCache[p].timestamp < CACHE_TTL => isCacheReady(p))
         /\ (now - productCache[p].timestamp >= CACHE_TTL => ~isCacheReady(p))
  /\ ServedFromCacheOnly =>
       \A p \in Providers :
         response.result.seen[p] > 0 =>
           ProductsOf(response.result.products, p) = productCache[p].products

\* one call served a slot aged TTL - 1 and a slot aged exactly TTL
C11_Witness ==
  /\ ServedFromCacheOnly
  /\ \E a, b \in Providers :
       /\ response.result.source[a] = "cache"
       /\ response.result.source[b] = "cache"
       /\ now - productCache[a].timestamp = CACHE_TTL - 1
       /\ now - productCache[b].timestamp = CACHE_TTL
       /\ isCacheReady(a)
       /\ ~isCacheReady(b)

\* the snapshot holds a non-empty, well-formed list for provider c only
OnlyOnDisk(c) ==
  /\ disk.kind = "snapshot"
  /\ Len(disk.data[c]) > 0
  /\ ~MigrateThrows(disk.data[c])
  /\ \A p \in Providers \ {c} : Len(disk.data[p]) = 0
\* the module has loaded and no warm-up block has returned yet
LoadedOnly == booted /\ lastLog = NoLog
\* what loadCacheFromDisk leaves for such a snapshot
WarmStarted(c) ==
  /\ loadResult = TRUE
  /\ productCache[c] =
       [products |-> migrateCacheProducts(disk.data[c]), timestamp |-> StartTime]
  /\ Len(productCache[c].products) = Len(disk.data[c])
  /\ (now - StartTime < CACHE_TTL => isCacheReady(c))
  /\ \A p \in Providers \ {c} : productCache[p] = EmptySlot
\* the returned call for provider c holds all of the slot, no live call made
ServedWhole(c) ==
  /\ response.result.products = productCache[c].products
  /\ response.result.counts[c] = Len(disk.data[c])
  /\ \A p \in Providers : response.result.liveCalls[p] = 0

\* C12 (as stated): with a snapshot holding products of provider C only,
\* loadCacheFromDisk returns true, slot C holds them stamped with the load
\* time, the other slots stay empty, and a call for provider C made before
\* any warm-up returns all of them without a provider call.
C12_WarmStartAnyProvider ==
  \A c \in Providers :
    (LoadedOnly /\ OnlyOnDisk(c)) =>
      /\ WarmStarted(c)
      /\ (response.pending /\ response.result.filter = c) => ServedWhole(c)

\* C12 (amended): the same, where the call returns the products unless C is
\* ppn and PPN is disabled; then it returns nothing and counts 0.
C12_WarmStartEnabledProvider ==
  \A c \in Providers :
    (LoadedOnly /\ OnlyOnDisk(c)) =>
      /\ WarmStarted(c)
      /\ (response.pending /\ response.result.filter = c) =>
           IF c = "ppn" /\ ~ppnEnabled
             THEN /\ response.result.products = <<>>
                  /\ response.result.counts[c] = 0
                  /\ \A p \in Providers : response.result.liveCalls[p] = 0
             ELSE ServedWhole(c)

C12_Witness ==
  \E c \in Providers :
    /\ LoadedOnly
    /\ OnlyOnDisk(c)
    /\ response.pending
    /\ response.result.filter = c
    /\ Len(response.result.products) = Len(disk.data[c])
    /\ response.result.products[1].BillerID = CodedId(c, 1)

\* the step in which the module loads the cache file
LoadStep == ~booted /\ booted'
\* a step in which saveCacheToDisk runs
SaveStep == saves' # saves

\* C13: with the cache file missing or not valid JSON, loadCacheFromDisk
\* returns false without throwing and every slot stays empty; when the file
\* cannot be written, saveCacheToDisk returns without throwing, the pass
\* ends normally and no slot is changed by the save.
C13_DiskErrorsNonFatal ==
  [][/\ (LoadStep /\ disk.kind \in {"nofile", "badjson"}) =>
          /\ loadResult' = FALSE
          /\ \A p \in Providers : productCache'[p] = EmptySlot
     /\ (SaveStep /\ ~diskWritable) =>
          /\ disk' = disk
          /\ cacheWarming' = FALSE
          /\ \E i \in 1..Len(warm) : warm[i] \in InProgress /\ warm'[i] = "done"
          /\ \A p \in Providers :
               productCache'[p] # productCache[p] =>
                 /\ lastLog'.provider = p
                 /\ lastLog'.outcome = "accepted"
                 /\ productCache'[p] = Fresh(Normalized(p, lastLog'.count))]_vars

\* a pass ended on an unwritable directory after a load of a file that is
\* not valid JSON, with products in memory
C13_Witness ==
  /\ booted
  /\ disk = BadJson
  /\ loadResult = FALSE
  /\ ~diskWritable
  /\ saves > 0
  /\ \E p \in Providers : hasCacheData(p)

\* C14: loadCacheFromDisk returns true exactly when it populated at least
\* one slot, and false exactly when it left every slot as it was, whatever
\* the snapshot holds.
C14_LoadReturnsWhetherLoaded ==
  [][LoadStep =>
       (loadResult' = TRUE <=> \E p \in Providers : productCache'[p] # productCache[p])]_vars

StartsWith(s, pre) == Len(s) >= Len(pre) /\ SubSeq(s, 1, Len(pre)) = pre
LegacyProviders == {"dtone", "billers", "ppn"}
LegacyPrefix(P) == Chars(P) \o <<Underscore>>
CodePrefix(P) == PROVIDER_TO_CODE[P] \o <<Underscore>>
HasLegacyPrefix(id) == \E P \in LegacyProviders : StartsWith(id, LegacyPrefix(P))
HasCodePrefix(id) == \E P \in Providers : StartsWith(id, CodePrefix(P))
\* the list `out` is the list `src` with every legacy identifier P_s
\* rewritten to code(P)_s and nothing else changed
Migrated(src, out) ==
  /\ Len(out) = Len(src)
  /\ \A i \in 1..Len(src) :
       /\ out[i].provider = src[i].provider
       /\ ~HasLegacyPrefix(out[i].BillerID)
       /\ \A P \in LegacyProviders :
            StartsWith(src[i].BillerID, LegacyPrefix(P)) =>
              out[i].BillerID =
                CodePrefix(P) \o SubSeq(src[i].BillerID, Len(LegacyPrefix(P)) + 1,
                                        Len(src[i].BillerID))
       /\ HasCodePrefix(src[i].BillerID) => out[i] = src[i]

\* C15: after loadCacheFromDisk every populated slot holds the saved list
\* with each legacy identifier P_s rewritten to code(P)_s: no legacy prefix
\* is left, coded products are unchanged, number and order are kept, and
\* migrating the slot again changes nothing.
C15_LegacyIdMigration ==
  [][LoadStep =>
       \A p \in Providers :
         productCache'[p] # productCache[p] =>
           /\ Migrated(disk.data[p], productCache'[p].products)
           /\ migrateCacheProducts(productCache'[p].products) = productCache'[p].products]_vars

\* a slot loaded from a list of one legacy and one coded identifier
C15_Witness ==
  \E c \in LegacyProviders :
    /\ LoadedOnly
    /\ OnlyOnDisk(c)
    /\ HasLegacyPrefix(disk.data[c][1].BillerID)
    /\ productCache[c].products[1].BillerID = CodedId(c, 1)
    /\ HasCodePrefix(disk.data[c][2].BillerID)
    /\ productCache[c].products[2] = disk.data[c][2]

\* the external identifier the codec gives a provider's raw id
ExternalId(P, R) == encodeProductId(InternalId(P, R))
\* a raw id without an underscore
Bare(R) == IndexOf(R, Underscore) = -1
\* the pairs whose provider-prefixed form cannot be read as another pair's:
\* any raw id under a named prefix, and bare raw ids for GlobeTopper
Unambiguous(P, R) == P # "globetopper" \/ Bare(R)

\* C16 (as stated): for every provider P and raw id R, decoding the external
\* id encoded for (R, P) yields provider P and raw id R, and no two distinct
\* (provider, raw id) pairs share an external id.
C16_RoundTripEveryRawId ==
  /\ codec.stage = "roundtrip" =>
       /\ codec.decoded.provider = codec.provider
       /\ codec.decoded.rawId = codec.raw
  /\ codec.stage = "encoded" =>
       \A P \in Providers, R \in RawIds :
         ExternalId(P, R) = codec.encoded => P = codec.provider /\ R = codec.raw

\* C16 (amended): the round trip and the injectivity hold for every raw id of
\* dtone, billers and ppn and for every GlobeTopper raw id without an
\* underscore; and decoding code(P)_R, the id the normalizers mint, yields
\* (P, R) for every provider and raw id.
C16_RoundTripUnambiguous ==
  /\ (codec.stage = "roundtrip" /\ Unambiguous(codec.provider, codec.raw)) =>
       /\ codec.decoded.provider = codec.provider
       /\ codec.decoded.rawId = codec.raw
       /\ codec.decoded.internalId = codec.id
  /\ (codec.stage = "encoded" /\ Unambiguous(codec.provider, codec.raw)) =>
       \A P \in Providers, R \in RawIds :
         (Unambiguous(P, R) /\ ExternalId(P, R) = codec.encoded) =>
           P = codec.provider /\ R = codec.raw
  /\ codec.stage = "roundtrip" =>
       decodeProductId(CodePrefix(codec.provider) \o codec.raw) =
         Decoded(codec.provider, codec.raw, codec.id)

\* a dtone raw id with an underscore in it went through the round trip
C16_Witness ==
  /\ codec.stage = "roundtrip"
  /\ codec.provider = "dtone"
  /\ ~Bare(codec.raw)
  /\ codec.encoded = CodePrefix("dtone") \o codec.raw
  /\ codec.decoded = Decoded("dtone", codec.raw, codec.id)

\* C17: encodeProductId(encodeProductId(x)) = encodeProductId(x) for every
\* x: coded, legacy-prefixed, bare, empty, or with several underscores.
C17_EncodeIdempotent ==
  codec.stage = "twice" => codec.again = codec.encoded

\* a legacy-prefixed id with two underscores was encoded twice
C17_Witness ==
  /\ codec.stage = "twice"
  /\ HasLegacyPrefix(codec.id)
  /\ ~Bare(codec.raw)
  /\ codec.encoded # codec.id
  /\ codec.again = codec.encoded

\* C18: for a non-empty x, encodeProductId(x) is x when x starts with a
\* numeric code and an underscore, code(P)_s when x is P_s for a legacy
\* prefix P, and 1001_x in every other case.
C18_EncodeResult ==
  (codec.stage = "encoded" /\ codec.id # <<>>) =>
    codec.encoded =
      IF HasCodePrefix(codec.id) THEN codec.id
      ELSE IF HasLegacyPrefix(codec.id)
        THEN LET P == CHOOSE Q \in LegacyProviders : StartsWith(codec.id, LegacyPrefix(Q))
             IN CodePrefix(P) \o SubSeq(codec.id, Len(LegacyPrefix(P)) + 1, Len(codec.id))
      ELSE CodePrefix("globetopper") \o codec.id

\* C19: decodeProductId returns, for an empty id or an id with neither a
\* numeric-code prefix nor a legacy prefix, provider globetopper with the
\* input as rawId and as internalId.
C19_DecodeFailsOpen ==
  (codec.stage = "decoded"
     /\ (codec.id = <<>> \/ (~HasCodePrefix(codec.id) /\ ~HasLegacyPrefix(codec.id)))) =>
    codec.decoded = Decoded("globetopper", codec.id, codec.id)

\* ------------------------------------------------------------------- C20
\* the sum of the per-provider counts that a result reports
RECURSIVE SumCounts(_, _)
SumCounts(counts, k) ==
  IF k = 0 THEN 0
  ELSE (IF counts[QueryOrder[k]] >= 0 THEN counts[QueryOrder[k]] ELSE 0)
         + SumCounts(counts, k - 1)
Unfiltered(r) == r.filter = "all" /\ r.category = NoText /\ r.search = NoText
TextFilterGiven(r) == r.category # NoText \/ r.search # NoText

\* C20: merge completeness. A result of getAllProducts called with no
\* provider, category or search filter reports a pagination total equal to
\* the sum of its per-provider counts, whatever page of it is returned; when
\* a category or search filter is supplied, the count of each provider served
\* from the cache is the number of products its slot held when its block
\* ran, that is the count before the text filters, and the total, which is
\* the number of products that passed them, never exceeds the sum.
C20_MergeCompleteness ==
  response.pending =>
    LET r == response.result IN
      /\ Unfiltered(r) => r.total = SumCounts(r.counts, Len(QueryOrder))
      /\ r.limit = NoLimit => r.total = Len(r.products)
      /\ r.total <= SumCounts(r.counts, Len(QueryOrder))
      /\ TextFilterGiven(r) =>
           \A p \in Providers :
             /\ r.source[p] = "cache" => r.counts[p] = r.seen[p]
             /\ Len(ProductsOf(r.products, p)) <= (IF r.counts[p] >= 0 THEN r.counts[p] ELSE 0)

\* a category-filtered result over all four providers whose billers and
\* dtone counts are both one while only the dtone product passed the filter
C20_Witness ==
  /\ response.pending
  /\ response.result.filter = "all"
  /\ response.result.category = "top-up"
  /\ response.result.counts["billers"] = 1
  /\ response.result.counts["dtone"] = 1
  /\ Len(ProductsOf(response.result.products, "billers")) = 0
  /\ Len(ProductsOf(response.result.products, "dtone")) = 1
  /\ response.result.total < SumCounts(response.result.counts, Len(QueryOrder))

\* ------------------------------------------------------- merge and filters
\* The provider blocks and the text filters of getAllProducts applied to
\* what each provider holds: a cached slot or the reply of a live fetch.
MaxHeld == 1     \* most products one provider holds

Countries == {"US", "MX"}
ProductNames == {"Gift", "Data"}
\* a normalized product with its country code and its name
ListedProduct(provider, country, name) ==
  [provider |-> provider, BillerID |-> CodedId(provider, 1), iso2 |-> country,
   productName |-> name]
RECURSIVE ListsOf(_, _)
ListsOf(provider, n) ==
  IF n = 0 THEN {<<>>}
  ELSE ListsOf(provider, n - 1) \cup
       {Append(l, ListedProduct(provider, c, m)) :
          l \in {k \in ListsOf(provider, n - 1) : Len(k) = n - 1},
          c \in Countries, m \in ProductNames}
\* the providers that hold products here; the other two contribute nothing
ListingProviders == {"dtone", "billers"}
Holdings ==
  {[p \in Providers |->
      IF p \in ListingProviders THEN [source |-> src[p], products |-> prods[p]]
      ELSE [source |-> "none", products |-> <<>>]] :
     src \in [ListingProviders -> {"cache", "live"}],
     prods \in {f \in [ListingProviders -> UNION {ListsOf(p, MaxHeld) : p \in ListingProviders}] :
                  \A p \in ListingProviders : f[p] \in ListsOf(p, MaxHeld)}}

InitListing ==
  /\ ServiceAtRest
  /\ codec = NoCodec
  /\ detail = NoDetail
  /\ client = NoClient
  /\ join = NoJoin
  /\ listing \in {[NoListing EXCEPT !.stage = "held", !.held = h, !.country = c,
                                    !.category = cat, !.search = s, !.provider = f] :
                    h \in Holdings, c \in {NoText} \cup Countries, cat \in {NoText, "TOP"},
                    s \in {NoText, "gift"}, f \in {"all"} \cup ListingProviders}

\* what one provider block concatenates onto allProducts: the cached
\* products of the country asked for, or the reply of the live fetch as the
\* upstream returned it
Contribution(l, provider) ==
  IF l.provider # "all" /\ l.provider # provider THEN <<>>
  ELSE IF l.held[provider].source = "cache"
    THEN CountryFiltered(l.held[provider].products, l.country)
  ELSE IF l.held[provider].source = "live" THEN l.held[provider].products
  ELSE <<>>

RECURSIVE MergedUpTo(_, _)
MergedUpTo(l, k) ==
  IF k = 0 THEN <<>> ELSE MergedUpTo(l, k - 1) \o Contribution(l, QueryOrder[k])

\* the four provider blocks
Merge ==
  /\ listing.stage = "held"
  /\ listing' = [listing EXCEPT !.stage = "merged",
                                !.merged = MergedUpTo(listing, Len(QueryOrder))]
  /\ UNCHANGED <<serviceVars, codec, detail, client, join>>

\* the category and search filters
Filter ==
  /\ listing.stage = "merged"
  /\ listing' = [listing EXCEPT !.stage = "filtered",
                                !.filtered = TextFiltered(listing.merged, listing.category,
                                                          listing.search)]
  /\ UNCHANGED <<serviceVars, codec, detail, client, join>>

NextListing == Merge \/ Filter \/ Paginate

SpecListing == InitListing /\ [][NextListing]_vars

\* ------------------------------------------------- catalogue/product join
MaxJoin == 2   \* most catalogue items, and most product entries

\* the cross-reference keys of the records: two ids and an absent one
JoinKeys == {RawId(1), RawId(2), <<>>}
RECURSIVE KeyLists(_)
KeyLists(n) ==
  IF n = 0 THEN {<<>>}
  ELSE KeyLists(n - 1) \cup
       {Append(l, key) : l \in {k \in KeyLists(n - 1) : Len(k) = n - 1}, key \in JoinKeys}

InitJoin ==
  /\ ServiceAtRest
  /\ codec = NoCodec
  /\ listing = NoListing
  /\ detail = NoDetail
  /\ client = NoClient
  /\ join \in {[NoJoin EXCEPT !.stage = "given",
                              !.catalogue = [i \in 1..Len(c) |-> CatItem(c[i])],
                              !.products = [i \in 1..Len(q) |-> ProdItem(q[i])]] :
                 c \in KeyLists(MaxJoin), q \in KeyLists(MaxJoin)}

\* normalizeGlobeTopper(catalogue, products)
NormalizeGlobeTopper ==
  /\ join.stage = "given"
  /\ join' = [join EXCEPT !.stage = "normalized",
                          !.allProducts = GlobeTopperJoin(join.catalogue, join.products),
                          !.normalized = normalizeGlobeTopper(join.catalogue, join.products)]
  /\ UNCHANGED <<serviceVars, codec, listing, detail, client>>

NextJoin == NormalizeGlobeTopper

SpecJoin == InitJoin /\ [][NextJoin]_vars

\* ---------------------------------------------------------- DT-One client
MaxPages == 2   \* most pages the DT-One catalogue has

MAX_RETRIES == 3
MAX_PAGE_ERRORS == 3
\* how one HTTP request settles: a response, a rate-limited (429) failure,
\* any other failure
HttpOutcomes == {"ok", "rate", "error"}
\* the products of one page of a catalogue of n pages: one product on each
\* page up to the last, none beyond
PageProducts(page, n) == IF page <= n THEN <<page>> ELSE <<>>

ClientOps == {"sendRequest", "sendRequestFull", "getAllProducts"}

InitClient ==
  /\ ServiceAtRest
  /\ codec = NoCodec
  /\ listing = NoListing
  /\ detail = NoDetail
  /\ join = NoJoin
  /\ client \in {[NoClient EXCEPT !.op = op, !.stage = "called", !.pages = n] :
                   op \in ClientOps, n \in 0..MaxPages}

\* a call of sendRequest or sendRequestFull begins: attempts = 0 and the
\* first HTTP request is issued
Requesting(c) == [c EXCEPT !.stage = "http", !.attempts = 0, !.requests = 1, !.last = "none"]

\* the client method is entered, up to its first HTTP request
ClientCall ==
  /\ client.stage = "called"
  /\ client' = IF client.op = "getAllProducts"
                 THEN [Requesting(client) EXCEPT !.page = 1, !.totalPages = 1,
                                                 !.consecutiveErrors = 0, !.pageRequests = 1]
                 ELSE Requesting(client)
  /\ UNCHANGED <<serviceVars, codec, listing, detail, join>>

\* fault variant: every failure is retried
RetriedAnyFailure(outcome) == outcome # "ok"

\* the catch of sendRequest and sendRequestFull: whether the failure is
\* counted and retried
Retried(outcome) == outcome = "rate"

\* whether the while loop of sendRequest issues another request after a
\* retried failure
LoopsAgain(attempts) == attempts < MAX_RETRIES

\* fault variant: the failure counter is not reset by a fetched page
ErrorsAfterSuccessKept(consecutiveErrors) == consecutiveErrors

\* consecutiveErrors after a fetched page
ErrorsAfterSuccess(consecutiveErrors) == 0

\* getAllProducts after sendRequestFull returned the page asked for
PageFetched(c) ==
  LET next == [c EXCEPT !.allProducts = @ \o PageProducts(c.page, c.pages),
                        !.consecutiveErrors = ErrorsAfterSuccess(@),
                        !.totalPages = c.pages,
                        !.page = @ + 1]
  IN IF next.page <= next.totalPages
       THEN [Requesting(next) EXCEPT !.last = "ok", !.pageRequests = @ + 1]
       ELSE [next EXCEPT !.stage = "returned", !.last = "ok"]

\* getAllProducts after sendRequestFull raised
PageFailed(c, outcome) ==
  LET next == [c EXCEPT !.consecutiveErrors = @ + 1] IN
  IF next.consecutiveErrors >= MAX_PAGE_ERRORS
    THEN [next EXCEPT !.stage = "returned", !.last = outcome]
  ELSE IF next.page <= next.totalPages
    THEN [Requesting(next) EXCEPT !.last = outcome, !.pageRequests = @ + 1]
  ELSE [next EXCEPT !.stage = "returned", !.last = outcome]

\* the awaited HTTP request settles
HttpSettles(outcome) ==
  /\ client.stage = "http"
  /\ client' =
       IF outcome = "ok"
         THEN IF client.op = "getAllProducts" THEN PageFetched(client)
              ELSE [client EXCEPT !.stage = "returned", !.last = "ok"]
       ELSE IF Retried(outcome) /\ LoopsAgain(client.attempts + 1)
         THEN [client EXCEPT !.attempts = @ + 1, !.requests = @ + 1, !.last = outcome]
       ELSE IF client.op = "getAllProducts"
         THEN PageFailed([client EXCEPT !.attempts = IF Retried(outcome) THEN @ + 1 ELSE @],
                         outcome)
       ELSE [client EXCEPT !.stage = "raised", !.last = outcome,
                           !.attempts = IF Retried(outcome) THEN @ + 1 ELSE @]
  /\ UNCHANGED <<serviceVars, codec, listing, detail, join>>

NextClient == ClientCall \/ \E outcome \in HttpOutcomes : HttpSettles(outcome)

SpecClient == InitClient /\ [][NextClient]_vars
\* every HTTP request settles: axios has a 30 s timeout
SpecClientLive == SpecClient /\ WF_vars(NextClient)

\* --------------------------------------------------------- getProductById
MaxRecords == 2   \* most records a lookup reply holds
MaxSkus == 2      \* most SKUs of one biller

\* the raw id asked for and the raw id of another record
WantedId == RawId(5)
OtherId == RawId(9)
\* the identifiers asked for: the coded and the provider-prefixed form of
\* one raw id for each provider
DetailIds ==
  {CodedId(P, 5) : P \in Providers} \cup {LegacyId(P, 5) : P \in Providers}

\* how a provider call settles: rejected, or resolved with records (for
\* GlobeTopper with a catalogue and a product list)
DetailThrew == [ok |-> FALSE, records |-> <<>>, catalogue |-> <<>>, products |-> <<>>]
Resolved(records) == [ok |-> TRUE, records |-> records, catalogue |-> <<>>, products |-> <<>>]
ResolvedBoth(catalogue, products) ==
  [ok |-> TRUE, records |-> <<>>, catalogue |-> catalogue, products |-> products]
\* the lists of at most n records whose ids are the wanted or the other one
RECURSIVE RecordLists(_)
RecordLists(n) ==
  IF n = 0 THEN {<<>>}
  ELSE RecordLists(n - 1) \cup
       {Append(l, id) : l \in {k \in RecordLists(n - 1) : Len(k) = n - 1},
                        id \in {WantedId, OtherId}}
\* what the first provider call of a block can settle with
LookupReplies(provider) ==
  CASE provider = "dtone" -> {DetailThrew, Resolved(<<WantedId>>)}
    [] provider = "globetopper" ->
         {DetailThrew} \cup
         {ResolvedBoth(c, q) : c \in RecordLists(1), q \in RecordLists(1)}
    [] OTHER -> {DetailThrew} \cup {Resolved(l) : l \in RecordLists(MaxRecords)}

SkuNames == <<"SKU1", "SKU2", "SKU3">>
\* the SKU lists getSkus can resolve with
SkuLists == {Resolved([i \in 1..n |-> SkuNames[i]]) : n \in 0..MaxSkus}
\* an iocatalog record
Field(sku, ioid, billerId) == [sku |-> sku, IOID |-> ioid, BillerID |-> billerId]
\* the iocatalog replies for one SKU: none, one record without BillerID, one
\* record of this biller and one of another, the same IOID twice
FieldLists(sku) ==
  {Resolved(<<>>),
   Resolved(<<Field(sku, "a", <<>>)>>),
   Resolved(<<Field(sku, "a", WantedId), Field(sku, "b", OtherId)>>),
   Resolved(<<Field(sku, "a", <<>>), Field(sku, "a", WantedId)>>)}

\* Array.prototype.find on record ids, then the "|| list[0]" fallback;
\* <<>> stands for undefined
FindOrFirst(list, realId) ==
  IF \E i \in 1..Len(list) : list[i] = realId THEN realId
  ELSE IF Len(list) > 0 THEN list[1]
  ELSE <<>>

\* the input fields kept for one SKU: those without BillerID or of this
\* biller, the first of each IOID
InputFields(allFields, realId) ==
  LET Kept(f) == f.BillerID = <<>> \/ f.BillerID = realId
      kept == SelectSeq(allFields, Kept)
      First(i) == \A k \in 1..(i - 1) : kept[k].IOID # kept[i].IOID
      RECURSIVE Dedup(_)
      Dedup(i) == IF i = 0 THEN <<>>
                  ELSE IF First(i) THEN Append(Dedup(i - 1), kept[i]) ELSE Dedup(i - 1)
  IN Dedup(Len(kept))

\* fault variant: a failed input-field fetch leaves the SKU out
SkusWithInputsDropping(skus, replies, realId) ==
  LET Ok(i) == replies[i].ok
      RECURSIVE Build(_)
      Build(i) == IF i = 0 THEN <<>>
                  ELSE IF Ok(i)
                    THEN Append(Build(i - 1),
                                [SKU |-> skus[i],
                                 inputFields |-> InputFields(replies[i].records, realId)])
                  ELSE Build(i - 1)
  IN Build(Len(skus))

\* Promise.all over the SKUs, each with its own try/catch
SkusWithInputs(skus, replies, realId) ==
  [i \in 1..Len(skus) |->
     [SKU |-> skus[i],
      inputFields |-> IF ~replies[i].ok THEN <<>>
                      ELSE InputFields(replies[i].records, realId)]]

NullResult == [kind |-> "null"]
\* the detail record built from the upstream record with raw id from
DetailResult(provider, encodedId, from, skus) ==
  [kind |-> "product", provider |-> provider, id |-> encodedId, from |-> from, skus |-> skus]

\* the block of getProductById that decoded.provider selects
Block(decoded) ==
  IF decoded.provider \in {"dtone", "billers", "ppn"} THEN decoded.provider
  ELSE "globetopper"
Call(provider, op) == [provider |-> provider, op |-> op]

InitDetail ==
  /\ ServiceAtRest
  /\ codec = NoCodec
  /\ listing = NoListing
  /\ client = NoClient
  /\ join = NoJoin
  /\ detail \in {[NoDetail EXCEPT !.stage = "given", !.id = id] : id \in DetailIds}

\* getProductById(id) up to its first await
GetProductById ==
  /\ detail.stage = "given"
  /\ LET decoded == decodeProductId(detail.id) IN
       detail' = [detail EXCEPT !.stage = "lookup", !.decoded = decoded,
                                !.encodedId = encodeProductId(detail.id),
                                !.calls = <<Call(Block(decoded), "lookup")>>]
  /\ UNCHANGED <<serviceVars, codec, listing, client, join>>

\* what the DT-One, PPN and GlobeTopper blocks return once their call settled
LookupResult(d, reply) ==
  LET provider == Block(d.decoded)
      realId == d.decoded.rawId
  IN IF ~reply.ok THEN NullResult
     ELSE IF provider = "dtone"
       THEN DetailResult("dtone", d.encodedId, reply.records[1], <<>>)
     ELSE IF provider = "ppn"
       THEN IF FindOrFirst(reply.records, realId) = <<>> THEN NullResult
            ELSE DetailResult("ppn", d.encodedId, FindOrFirst(reply.records, realId), <<>>)
     ELSE IF \E i \in 1..Len(reply.catalogue) : reply.catalogue[i] = realId
       THEN DetailResult("globetopper", d.encodedId, realId, <<>>)
     ELSE IF \E i \in 1..Len(reply.products) : reply.products[i] = realId
       THEN DetailResult("globetopper", d.encodedId, realId, <<>>)
     ELSE NullResult

\* whether a lookup reply holds a record with the raw id asked for
Matching(d, reply) ==
  /\ reply.ok
  /\ IF Block(d.decoded) = "globetopper"
       THEN \/ \E i \in 1..Len(reply.catalogue) : reply.catalogue[i] = d.decoded.rawId
            \/ \E i \in 1..Len(reply.products) : reply.products[i] = d.decoded.rawId
       ELSE \E i \in 1..Len(reply.records) : reply.records[i] = d.decoded.rawId

\* the awaited lookup call settles
LookupSettles(reply) ==
  /\ detail.stage = "lookup"
  /\ reply \in LookupReplies(Block(detail.decoded))
  /\ detail' =
       IF Block(detail.decoded) = "billers" /\ reply.ok
         THEN [detail EXCEPT !.stage = "skus", !.lookup = "ok",
                             !.matched = Matching(detail, reply),
                             !.biller = FindOrFirst(reply.records, detail.decoded.rawId),
                             !.calls = Append(@, Call("billers", "getSkus"))]
       ELSE [detail EXCEPT !.stage = "returned",
                           !.lookup = IF reply.ok THEN "ok" ELSE "threw",
                           !.matched = Matching(detail, reply),
                           !.result = LookupResult(detail, reply)]
  /\ UNCHANGED <<serviceVars, codec, listing, client, join>>

\* billersProvider.getSkus settles; the input-field fetches are issued
SkusSettle(reply) ==
  /\ detail.stage = "skus"
  /\ reply \in {DetailThrew} \cup SkuLists
  /\ LET skus == IF reply.ok THEN reply.records ELSE <<>> IN
       detail' = [detail EXCEPT !.stage = "inputs",
                                !.skusReply = IF reply.ok THEN "ok" ELSE "threw",
                                !.skus = skus,
                                !.calls = @ \o [i \in 1..Len(skus) |->
                                                  Call("billers", "getSkuInputs")]]
  /\ UNCHANGED <<serviceVars, codec, listing, client, join>>

\* every getSkuInputs call has settled: Promise.all resolves and the
\* Billers block returns
InputsSettle(replies) ==
  /\ detail.stage = "inputs"
  /\ Len(replies) = Len(detail.skus)
  /\ \A i \in 1..Len(replies) : replies[i] \in {DetailThrew} \cup FieldLists(detail.skus[i])
  /\ detail' =
       [detail EXCEPT !.stage = "returned", !.inputsReply = replies,
                      !.result =
                        IF detail.biller = <<>> THEN NullResult
                        ELSE DetailResult("billers", detail.encodedId, detail.biller,
                                          SkusWithInputs(detail.skus, replies,
                                                         detail.decoded.rawId))]
  /\ UNCHANGED <<serviceVars, codec, listing, client, join>>

AllLookupReplies == UNION {LookupReplies(P) : P \in Providers}
AllFieldReplies ==
  UNION {[1..n -> {DetailThrew} \cup UNION {FieldLists(SkuNames[i]) : i \in 1..MaxSkus}] :
           n \in 0..MaxSkus}

NextDetail ==
  \/ GetProductById
  \/ \E reply \in AllLookupReplies : LookupSettles(reply)
  \/ \E reply \in {DetailThrew} \cup SkuLists : SkusSettle(reply)
  \/ \E replies \in AllFieldReplies : InputsSettle(replies)

SpecDetail == InitDetail /\ [][NextDetail]_vars

\* --------------------------------------------- warm-up passes to their end
\* The blocks of warmUpCache resumed outside the event budget: a provider
\* call of a pass that has started settles whatever else the run held.
GlobeTopperSettles(i, outcome) == WarmGlobeTopperBlock(i, outcome) /\ UNCHANGED events
DtOneSettles(i, fetched) == WarmDtOneBlock(i, fetched) /\ UNCHANGED events
BillersSettles(i, fetched) == WarmBillersBlock(i, fetched) /\ UNCHANGED events
PpnSettles(i, outcome) == WarmPpnBlock(i, outcome) /\ UNCHANGED events

\* the provider call a pass is waiting for settles, any way it can
WarmSettles ==
  \E i \in 1..Len(warm) :
    \/ \E outcome \in GtOutcomes : GlobeTopperSettles(i, outcome)
    \/ \E fetched \in ListOutcomes : DtOneSettles(i, fetched)
    \/ \E fetched \in ListOutcomes : BillersSettles(i, fetched)
    \/ \E outcome \in ThrowingOutcomes : PpnSettles(i, outcome)

MaxPasses == 2   \* most calls of warmUpCache in one run

\* a timer fires while the run holds fewer than MaxPasses calls
TimerFires == Len(warm) < MaxPasses /\ TimerWarmUp

NextWarm ==
  \/ loadCacheFromDisk
  \/ TimerFires
  \/ WarmSettles

SpecWarm == Init /\ [][NextWarm]_vars

\* every provider call settles: the clients' requests carry timeouts
SpecWarmLive == SpecWarm /\ WF_vars(WarmSettles)

\* ------------------------------------------- passes without a failed fetch
\* the replies of provider calls that return without error
GtReturned == {outcome \in GtOutcomes : outcome.ok}
PpnReturned == {outcome \in ThrowingOutcomes : outcome.ok}

\* the provider call a pass is waiting for returns
WarmReturns ==
  \E i \in 1..Len(warm) :
    \/ \E outcome \in GtReturned : GlobeTopperSettles(i, outcome)
    \/ \E fetched \in ListOutcomes : DtOneSettles(i, fetched)
    \/ \E fetched \in ListOutcomes : BillersSettles(i, fetched)
    \/ \E outcome \in PpnReturned : PpnSettles(i, outcome)

\* time passes between start-up and the first pass, and none from then on:
\* the passes and the requests that follow them are instants apart
TickBeforePasses == warm = <<>> /\ Tick

\* the staleness trigger does not look at the request's filter: one filter
RefreshFilters == {"dtone"}

\* a listing request for a provider whose slot holds data
CachedRequest(filter) == hasCacheData(filter) /\ getAllProducts(filter)

NextRefresh ==
  \/ loadCacheFromDisk
  \/ TickBeforePasses
  \/ TimerFires
  \/ WarmReturns
  \/ Respond
  \/ \E filter \in RefreshFilters : CachedRequest(filter)

SpecRefresh == Init /\ [][NextRefresh]_vars

\* ------------------------------------------------------------------- C21
\* C21: pagination. For a filtered merged list of size S, a page number
\* k >= 1 and a limit L >= 1, the call returns exactly the elements of the
\* list at the zero-based positions (k-1)L up to but excluding kL, in order
\* (none when (k-1)L >= S), with total = S and totalPages = ceil(S / L).
C21_Pagination ==
  (listing.stage = "returned" /\ listing.page >= 1 /\ listing.limit >= 1) =>
    LET S == Len(listing.filtered)
        k == listing.page
        L == listing.limit
        Positions == {i \in 1..S : (k - 1) * L < i /\ i <= k * L}
    IN /\ Len(listing.products) = Cardinality(Positions)
       /\ \A j \in 1..Len(listing.products) :
            listing.products[j] = listing.filtered[(k - 1) * L + j]
       /\ (k - 1) * L >= S => listing.products = <<>>
       /\ listing.total = S
       /\ listing.totalPages * L >= S
       /\ (listing.totalPages - 1) * L < S
       /\ listing.totalPages >= 0

\* the second page of two out of three products
C21_Witness ==
  /\ listing.stage = "returned"
  /\ Len(listing.filtered) = 3
  /\ listing.limit = 2
  /\ listing.page = 2
  /\ listing.products = <<listing.filtered[3]>>
  /\ listing.totalPages = 2

\* ------------------------------------------------------------------- C22
\* whether a product satisfies every filter supplied
Satisfies(x, l) ==
  /\ l.country # NoText => x.iso2 = l.country
  /\ l.category # NoText =>
       Includes(Chars(ToLowerCase(CategoryName(x))), Chars(ToLowerCase(l.category)))
  /\ l.search # NoText =>
       Includes(Chars(ToLowerCase(x.productName)), Chars(ToLowerCase(l.search)))
  /\ l.provider # "all" => x.provider = l.provider

\* C22: filter soundness and completeness. Every product of the list before
\* pagination satisfies every filter supplied, whether its provider was
\* served from the cache or by a live fetch, and no product of the merged
\* set that satisfies all supplied filters is left out.
C22_FilterSoundAndComplete ==
  listing.stage = "filtered" =>
    /\ \A i \in 1..Len(listing.filtered) : Satisfies(listing.filtered[i], listing)
    /\ \A i \in 1..Len(listing.merged) :
         Satisfies(listing.merged[i], listing) =>
           \E j \in 1..Len(listing.filtered) : listing.filtered[j] = listing.merged[i]

\* ------------------------------------------------------------------- C23
\* C23: getProductById never throws, calls only the provider its identifier
\* decodes to, and returns null when that provider's lookup fails or yields
\* no record with the raw id asked for.
C23_LookupNullWhenNotFound ==
  detail.stage = "returned" =>
    /\ detail.result.kind \in {"null", "product"}
    /\ \A i \in 1..Len(detail.calls) : detail.calls[i].provider = detail.decoded.provider
    /\ (detail.lookup = "threw" \/ ~detail.matched) => detail.result = NullResult

\* ------------------------------------------------------------------- C26
\* the fields of a reply that the filter of the Billers block lets through
Eligible(f) == f.BillerID = <<>> \/ f.BillerID = detail.decoded.rawId
Elements(list) == {list[i] : i \in 1..Len(list)}

\* C26: partial detail lookup. For a Billers identifier whose biller record
\* is found, the result is returned whatever the sub-fetches do: a SKU whose
\* input-field fetch failed carries an empty inputFields list, every other
\* SKU carries fields of its own reply only (those of this biller or of no
\* biller, one per IOID), and a failed SKU-list fetch gives an empty skus
\* list, not null.
C26_PartialDetailLookup ==
  (detail.stage = "returned" /\ Block(detail.decoded) = "billers" /\ detail.matched) =>
    /\ detail.result.kind = "product"
    /\ detail.result.from = detail.decoded.rawId
    /\ detail.skusReply = "threw" => detail.result.skus = <<>>
    /\ Len(detail.result.skus) = Len(detail.skus)
    /\ \A i \in 1..Len(detail.skus) :
         LET sku == detail.result.skus[i]
             reply == detail.inputsReply[i]
         IN /\ sku.SKU = detail.skus[i]
            /\ ~reply.ok => sku.inputFields = <<>>
            /\ reply.ok =>
                 /\ Elements(sku.inputFields) \subseteq
                      {f \in Elements(reply.records) : Eligible(f)}
                 /\ \A f \in Elements(sku.inputFields) : f.sku = detail.skus[i]
                 /\ \A f \in Elements(reply.records) :
                      Eligible(f) => \E g \in Elements(sku.inputFields) : g.IOID = f.IOID
                 /\ \A m, n \in 1..Len(sku.inputFields) :
                      sku.inputFields[m].IOID = sku.inputFields[n].IOID => m = n

\* a returned Billers detail with two SKUs: the input fields of the first
\* could not be fetched, the second carries its own
C26_Witness ==
  /\ detail.stage = "returned"
  /\ Block(detail.decoded) = "billers"
  /\ detail.matched
  /\ Len(detail.skus) = 2
  /\ ~detail.inputsReply[1].ok
  /\ detail.inputsReply[2].ok
  /\ detail.result.kind = "product"
  /\ detail.result.skus[1].inputFields = <<>>
  /\ detail.result.skus[2].inputFields # <<>>

\* ------------------------------------------------------------------- C24
\* the calls of getAllProducts in progress or just returned
Calls == {queries[j] : j \in 1..Len(queries)} \cup
         (IF response.pending THEN {response.result} ELSE {})

\* C24: feature-flagged provider. With PPN disabled no warm-up pass reaches
\* the PPN fetch and no step other than the load from disk changes the PPN
\* slot; no getAllProducts call makes a PPN call, a result reports
\* providers.ppn = 0 and holds no PPN product; each of the other three
\* providers is still served from its slot when the slot has data and by one
\* live call when it has none.
C24_PpnDisabled ==
  [][~ppnEnabled =>
       /\ \A i \in 1..Len(warm') : warm'[i] # "ppn"
       /\ ~LoadStep => productCache'["ppn"] = productCache["ppn"]
       /\ \A q \in {queries'[j] : j \in 1..Len(queries')} : q.liveCalls["ppn"] = 0
       /\ response'.pending =>
            LET r == response'.result IN
              /\ r.liveCalls["ppn"] = 0
              /\ r.filter \in {"all", "ppn"} => r.counts["ppn"] = 0
              /\ ProductsOf(r.products, "ppn") = <<>>
              /\ \A p \in Providers \ {"ppn"} :
                   r.filter \in {"all", p} =>
                     /\ r.seen[p] > 0 => (r.source[p] = "cache" /\ r.counts[p] = r.seen[p]
                                            /\ r.liveCalls[p] = 0)
                     /\ r.seen[p] = 0 => (r.source[p] \in {"live", "livefailed"}
                                            /\ r.liveCalls[p] = 1)
  ]_vars

\* with PPN disabled and a PPN slot loaded from disk, a whole warm-up pass
\* has ended and a result over all providers reports no PPN product
C24_Witness ==
  /\ ~ppnEnabled
  /\ productCache["ppn"].products # <<>>
  /\ saves > 0
  /\ response.pending
  /\ response.result.filter = "all"
  /\ response.result.counts["ppn"] = 0
  /\ response.result.counts["dtone"] > 0

\* ------------------------------------------------------------------- C25
\* the product entry joined to catalogue item i: the first one whose
\* operator id equals the item's topup_product_id; 0 when there is none
JoinedTo(i) ==
  LET Same == {k \in 1..Len(join.products) :
                 join.products[k].operator_id = join.catalogue[i].topup_product_id}
  IN IF Same = {} THEN 0 ELSE CHOOSE k \in Same : \A l \in Same : k <= l
\* the positions of the product entries joined to no catalogue item
Unjoined == {k \in 1..Len(join.products) :
               \A i \in 1..Len(join.catalogue) : JoinedTo(i) # k}
\* the entries of a list at the positions of a set, in order
RECURSIVE Picked(_, _, _)
Picked(list, positions, n) ==
  IF n = 0 THEN <<>>
  ELSE IF n \in positions THEN Append(Picked(list, positions, n - 1), list[n])
  ELSE Picked(list, positions, n - 1)

\* C25: catalogue/product join. normalizeGlobeTopper returns one entry for
\* each catalogue item, in catalogue order, merged with the product entry
\* joined to it if there is one, followed by exactly the product entries
\* joined to no catalogue item, in their order: no joined product entry is
\* appended again and no product entry is dropped.
C25_CatalogueProductJoin ==
  join.stage = "normalized" =>
    LET C == Len(join.catalogue)
        out == join.allProducts
    IN /\ Len(join.normalized) = Len(out)
       /\ Len(out) = C + Cardinality(Unjoined)
       /\ \A i \in 1..C :
            /\ out[i].topup_product_id = join.catalogue[i].topup_product_id
            /\ out[i].operator_id =
                 (IF JoinedTo(i) = 0 THEN <<>> ELSE join.products[JoinedTo(i)].operator_id)
       /\ SubSeq(out, C + 1, Len(out)) = Picked(join.products, Unjoined, Len(join.products))

\* ------------------------------------------------------------------- C27
\* a call of sendRequest or sendRequestFull, made directly or by getAllProducts,
\* is awaiting an HTTP response
AwaitingHttp == client.stage = "http"
Direct == client.op \in {"sendRequest", "sendRequestFull"}

\* C27: retry ceiling of the DT-One client. A call of sendRequest or
\* sendRequestFull returns on its first successful response; after a
\* rate-limited response it issues one more request unless MAX_RETRIES
\* requests have been issued, in which case it raises; any other failure
\* is raised at once with no further request; no call issues more than
\* MAX_RETRIES requests.
C27_RetryCeiling ==
  [][AwaitingHttp =>
       /\ client.requests <= MAX_RETRIES
       /\ (client'.last = "ok" /\ Direct) =>
            (client'.stage = "returned" /\ client'.requests = client.requests)
       /\ client'.last = "rate" =>
            IF client.requests < MAX_RETRIES
              THEN /\ client'.stage = "http"
                   /\ client'.requests = client.requests + 1
              ELSE (Direct => (client'.stage = "raised" /\ client'.requests = client.requests))
       /\ (client'.last = "error" /\ Direct) =>
            (client'.stage = "raised" /\ client'.requests = client.requests)
       /\ Direct => client'.requests <= MAX_RETRIES
  ]_vars

\* a direct call that raised after MAX_RETRIES rate-limited requests
C27_Witness ==
  /\ Direct
  /\ client.stage = "raised"
  /\ client.last = "rate"
  /\ client.requests = MAX_RETRIES

\* ------------------------------------------------------------------- C28
Paging == client.op = "getAllProducts"
\* the products of pages 1..n of the catalogue, in order
RECURSIVE PagesUpTo(_)
PagesUpTo(n) == IF n = 0 THEN <<>> ELSE PagesUpTo(n - 1) \o PageProducts(n, client.pages)
\* the sendRequestFull call of the page asked for ends with this step
PageReturns == AwaitingHttp /\ client'.last = "ok"
PageRaises ==
  /\ AwaitingHttp
  /\ \/ client'.last = "error"
     \/ client'.last = "rate" /\ client.requests = MAX_RETRIES

\* C28: DT-One getAllProducts terminates without raising. Pages are asked for
\* in increasing order from 1; a page whose request failed is asked for again;
\* every fetched page resets the consecutive-failure counter; after 3
\* consecutive failures the loop stops and returns the pages fetched so far;
\* otherwise the result is pages 1..totalPages in order, none skipped or
\* duplicated.
C28_PageLoopTerminates ==
  /\ [](Paging =>
         /\ client.stage # "raised"
         /\ client.stage \in {"http", "returned"} =>
              /\ client.page >= 1
              /\ client.allProducts = PagesUpTo(client.page - 1)
              /\ client.consecutiveErrors <= MAX_PAGE_ERRORS
         /\ client.stage = "returned" =>
              IF client.consecutiveErrors >= MAX_PAGE_ERRORS
                THEN client.allProducts = PagesUpTo(client.page - 1)
                ELSE /\ client.allProducts = [k \in 1..client.pages |-> k]
                     /\ client.page > client.pages)
  /\ [][Paging =>
          /\ PageReturns => /\ client'.page = client.page + 1
                            /\ client'.consecutiveErrors = 0
          /\ PageRaises =>
               /\ client'.page = client.page
               /\ client'.consecutiveErrors = client.consecutiveErrors + 1
               /\ client'.allProducts = client.allProducts
               /\ IF client'.consecutiveErrors >= MAX_PAGE_ERRORS
                    THEN client'.stage = "returned"
                    ELSE client'.stage = "http" /\ client'.pageRequests = client.pageRequests + 1
     ]_vars
  /\ <>(Paging => client.stage = "returned")

\* a call that returned both pages of a two-page catalogue although page
\* requests failed on the way
C28_Witness ==
  /\ Paging
  /\ client.stage = "returned"
  /\ client.pages = 2
  /\ client.allProducts = <<1, 2>>
  /\ client.pageRequests > 3


\* ------------------------------------------------------------------- C29
\* C29: warm-up always releases its guard. The in-flight flag is set exactly
\* while a pass is between its entry and its end, so it is never left set
\* after a pass has ended; every pass that starts finishes and clears the
\* flag, whatever its provider calls resolve to (success, failure, a rejected
\* update) and whether PPN is enabled or not, given that each provider call
\* settles: a pass in flight leaves that state only by reaching its end, and
\* the run always comes back to no pass in flight with the flag clear; and a
\* timer that fires while no pass is in flight starts a pass.
PassEntered == Len(warm') = Len(warm) + 1 /\ ~cacheWarming
C29_WarmUpReleasesGuard ==
  /\ [](cacheWarming <=> Running # {})
  /\ [][PassEntered => (warm'[Len(warm')] = "globetopper" /\ cacheWarming')]_vars
  /\ [][\A i \in Running : warm'[i] \in InProgress \cup {"done"}]_vars
  /\ (Running # {}) ~> (Running = {} /\ ~cacheWarming)

\* a pass ended on a failed PPN call and the next timer started a new pass
C29_Witness ==
  /\ Len(warm) = 2
  /\ warm[1] = "done"
  /\ warm[2] = "globetopper"
  /\ cacheWarming
  /\ lastLog.outcome = "failed"


\* ------------------------------------------------------------------- C30
PassEnds == cacheWarming /\ ~cacheWarming'
\* the block of warmUpCache for provider p has just run
Stepped(p) == \E i \in 1..Len(warm) : warm[i] = p /\ warm'[i] # p
\* a listing request returns while no pass is in flight
AskedAtRest == ~response.pending /\ response'.pending /\ ~cacheWarming

====
